---- MODULE Spec2Model ----
(***************************************************************************)
(* NodeDecisionLibrary: a per-device graph of logic / arithmetic /         *)
(* device-source / terminal nodes, evaluated on every value update, whose  *)
(* terminal decisions pass a debounce / oscillation gate before the        *)
(* registered callback is invoked.                                         *)
(***************************************************************************)
EXTENDS Integers, Sequences, FiniteSets, TLC

(***************************************************************************)
(* Bounds of the model and constants of the program.                       *)
(***************************************************************************)
NumDevices == 2
MaxEdges == 3
Devices == 1..NumDevices

\* unsigned long debounceDuration = 10000 (NodeDecisionLibrary.h)
DefaultDebounceDuration == 10000

\* values millis() takes in the model, and arguments of setDebounceDuration
Times == {0, 2000, 4000, 10000, 10001, 15000, 20000}
Durations == {0, DefaultDebounceDuration}

\* the coarser clock of the unbounded run
LiveTimes == {0, 10000, 20000}

VARIABLES
    deviceNodes,          \* std::map<int, std::vector<NodeData>>
    deviceRelationships,  \* std::map<int, std::vector<RelationshipData>>
    deviceValues,         \* std::map<int, std::string>
    lastTriggerTime,      \* std::map<int, unsigned long>
    pendingValues,        \* std::map<int, bool>
    callback,             \* whether the std::function callback holds a target
    debounceDuration,     \* unsigned long
    now,                  \* the value millis() returns
    fault,                \* the process has faulted (undefined behaviour hit)
    quiet,                \* devices for which the environment sends no more decisions
    last,                 \* the last handler call and what it did
    hist,                 \* the gate calls since construction, while they follow a scenario
    dispatched            \* per device, the last callback invocation and the one before it

vars == <<deviceNodes, deviceRelationships, deviceValues, lastTriggerTime,
          pendingValues, callback, debounceDuration, now, fault, quiet, last, hist,
          dispatched>>

graphVars == <<deviceNodes, deviceRelationships, deviceValues>>
gateVars == <<lastTriggerTime, pendingValues>>

(***************************************************************************)
(* std::map helpers.                                                       *)
(***************************************************************************)
EmptyMap == [x \in {} |-> 0]

Put(m, k, v) == [x \in (DOMAIN m) \cup {k} |-> IF x = k THEN v ELSE m[x]]

Erase(m, k) == [x \in (DOMAIN m) \ {k} |-> m[x]]

Min(S) == CHOOSE x \in S : \A y \in S : x <= y

RECURSIVE SortedKeys(_)
SortedKeys(S) ==
    IF S = {} THEN <<>> ELSE <<Min(S)>> \o SortedKeys(S \ {Min(S)})

(***************************************************************************)
(* currentTime - lastTriggerTime >= debounceDuration on unsigned long.     *)
(* The subtraction is modulo 2^32: when the counter has wrapped            *)
(* (currentTime < lastTriggerTime) the difference is                       *)
(* 2^32 - (lastTriggerTime - currentTime), which is above every duration   *)
(* the model uses since all its times are below 2^31.                      *)
(***************************************************************************)
ElapsedAtLeast(currentTime, since, duration) ==
    IF currentTime >= since THEN currentTime - since >= duration ELSE TRUE

(***************************************************************************)
(* The gate state threaded through a handler: the two maps, the callback   *)
(* invocations made so far in the handler, and whether it has faulted.     *)
(***************************************************************************)
Gate(ltt, pv) == [ltt |-> ltt, pv |-> pv, calls |-> <<>>, fault |-> FALSE]

Restrict(m, k) == [x \in (DOMAIN m) \cap {k} |-> m[x]]

\* processDeviceChange with the window test placed before the oscillation test
Mutant_processDeviceChange_DebounceFirst(g, deviceId, newValue) ==
    IF deviceId \notin DOMAIN g.ltt
       \/ ElapsedAtLeast(now, g.ltt[deviceId], debounceDuration)
    THEN [g EXCEPT !.ltt = Put(g.ltt, deviceId, now),
                   !.pv = Put(g.pv, deviceId, newValue),
                   !.calls = IF callback THEN Append(g.calls, <<deviceId, newValue>>)
                             ELSE g.calls]
    ELSE IF deviceId \in DOMAIN g.pv /\ g.pv[deviceId] # newValue
    THEN [g EXCEPT !.ltt = Put(g.ltt, deviceId, now),
                   !.pv = Put(g.pv, deviceId, newValue)]
    ELSE g

\* processDeviceChange that dispatches a flipped decision at once
Mutant_processDeviceChange_FlipFires(g, deviceId, newValue) ==
    IF deviceId \notin DOMAIN g.ltt
       \/ ElapsedAtLeast(now, g.ltt[deviceId], debounceDuration)
       \/ (deviceId \in DOMAIN g.pv /\ g.pv[deviceId] # newValue)
    THEN [g EXCEPT !.ltt = Put(g.ltt, deviceId, now),
                   !.pv = Put(g.pv, deviceId, newValue),
                   !.calls = IF callback THEN Append(g.calls, <<deviceId, newValue>>)
                             ELSE g.calls]
    ELSE g

\* processDeviceChange that restarts the window on every decision inside it
Mutant_processDeviceChange_AlwaysRestart(g, deviceId, newValue) ==
    IF deviceId \in DOMAIN g.pv /\ g.pv[deviceId] # newValue
    THEN [g EXCEPT !.ltt = Put(g.ltt, deviceId, now),
                   !.pv = Put(g.pv, deviceId, newValue)]
    ELSE IF deviceId \notin DOMAIN g.ltt
            \/ ElapsedAtLeast(now, g.ltt[deviceId], debounceDuration)
    THEN [g EXCEPT !.ltt = Put(g.ltt, deviceId, now),
                   !.pv = Put(g.pv, deviceId, newValue),
                   !.calls = IF callback THEN Append(g.calls, <<deviceId, newValue>>)
                             ELSE g.calls]
    ELSE [g EXCEPT !.ltt = Put(g.ltt, deviceId, now)]

\* processDeviceChange that dispatches every decision that is not a flip
Mutant_processDeviceChange_NoWindow(g, deviceId, newValue) ==
    IF deviceId \in DOMAIN g.pv /\ g.pv[deviceId] # newValue
    THEN [g EXCEPT !.ltt = Put(g.ltt, deviceId, now),
                   !.pv = Put(g.pv, deviceId, newValue)]
    ELSE [g EXCEPT !.ltt = Put(g.ltt, deviceId, now),
                   !.pv = Put(g.pv, deviceId, newValue),
                   !.calls = IF callback THEN Append(g.calls, <<deviceId, newValue>>)
                             ELSE g.calls]

\* void processDeviceChange(int deviceId, bool newValue)
processDeviceChange(g, deviceId, newValue) ==
    IF deviceId \in DOMAIN g.pv /\ g.pv[deviceId] # newValue
    THEN \* oscillation: restart the window, no callback
         [g EXCEPT !.ltt = Put(g.ltt, deviceId, now),
                   !.pv = Put(g.pv, deviceId, newValue)]
    ELSE IF deviceId \notin DOMAIN g.ltt
            \/ ElapsedAtLeast(now, g.ltt[deviceId], debounceDuration)
    THEN [g EXCEPT !.ltt = Put(g.ltt, deviceId, now),
                   !.pv = Put(g.pv, deviceId, newValue),
                   !.calls = IF callback THEN Append(g.calls, <<deviceId, newValue>>)
                             ELSE g.calls]
    ELSE g

(***************************************************************************)
(* processPendingChanges erases the element the loop iterator points at    *)
(* and then increments that iterator: undefined behaviour.  What the freed *)
(* tree node still holds decides the outcome; the model lets a call go on  *)
(* to the true successor for the first failAt - 1 erasures and then either *)
(* leave the loop ("end") or fault ("fault").                              *)
(***************************************************************************)
EraseOutcomes == [failAt : 1..(NumDevices + 1), how : {"end", "fault"}]

RECURSIVE SweepFrom(_, _, _, _, _)
\* the loop of processPendingChanges from the i-th key of the iteration on
SweepFrom(g, keys, i, erased, ub) ==
    IF i > Len(keys) THEN g
    ELSE LET deviceId == keys[i]
             newValue == g.pv[deviceId]
             \* lastTriggerTime[deviceId]: operator[] inserts 0 when absent
             ltt0 == IF deviceId \in DOMAIN g.ltt THEN g.ltt
                     ELSE Put(g.ltt, deviceId, 0)
         IN IF ElapsedAtLeast(now, ltt0[deviceId], debounceDuration)
            THEN LET g1 == [g EXCEPT
                              !.calls = IF callback
                                        THEN Append(g.calls, <<deviceId, newValue>>)
                                        ELSE g.calls,
                              !.pv = Erase(g.pv, deviceId),
                              !.ltt = Erase(ltt0, deviceId)]
                 IN IF erased + 1 = ub.failAt
                    THEN [g1 EXCEPT !.fault = (ub.how = "fault")]
                    ELSE SweepFrom(g1, keys, i + 1, erased + 1, ub)
            ELSE SweepFrom([g EXCEPT !.ltt = ltt0], keys, i + 1, erased, ub)

\* processPendingChanges that dispatches and keeps the pending entries
Mutant_processPendingChanges_KeepPending(g, ub) ==
    [SweepFrom(g, SortedKeys(DOMAIN g.pv), 1, 0, ub) EXCEPT !.pv = g.pv, !.ltt = g.ltt]

\* processPendingChanges that erases the pending value and keeps the trigger time
Mutant_processPendingChanges_KeepTrigger(g, ub) ==
    [SweepFrom(g, SortedKeys(DOMAIN g.pv), 1, 0, ub) EXCEPT !.ltt = g.ltt]

\* void processPendingChanges()
processPendingChanges(g, ub) ==
    SweepFrom(g, SortedKeys(DOMAIN g.pv), 1, 0, ub)

(***************************************************************************)
(* Strings are sequences of characters.                                    *)
(***************************************************************************)
SEmpty == <<>>
SNull == <<"n", "u", "l", "l">>
STrue == <<"t", "r", "u", "e">>
SFalse == <<"f", "a", "l", "s", "e">>

(***************************************************************************)
(* A decoded payload of decodeLogicData: either Unparsable (deserializeJson *)
(* reports an error) or the arrays data.n and data.r.  Of a node the model  *)
(* keeps id, aId, the inputs (id, d) and the outputs (id, dId); of a        *)
(* relationship id, i and o.  The fields the library stores and never reads *)
(* (k, dt, cId, c) are left out.  NoData stands for an input without "d".   *)
(***************************************************************************)
Unparsable == [parsed |-> FALSE, n |-> <<>>, r |-> <<>>]

Payload(n, r) == [parsed |-> TRUE, n |-> n, r |-> r]

NoData == <<"<absent>">>

PIn(id, d) == [id |-> id, d |-> d]

POut(id, dId) == [id |-> id, dId |-> dId]

PNode(id, aId, i, o) == [id |-> id, aId |-> aId, i |-> i, o |-> o]

PRel(id, i, o) == [id |-> id, i |-> i, o |-> o]

Range(s) == {s[k] : k \in DOMAIN s}

SeqMap(Op(_), s) == [k \in DOMAIN s |-> Op(s[k])]

\* InputData: "d" when present and not null, else "null"
DecodeInput(input) ==
    [id |-> input.id, data |-> IF input.d = NoData THEN SNull ELSE input.d]

\* OutputData: data is a default-constructed std::string
DecodeOutput(output) ==
    [id |-> output.id, data |-> SEmpty, deviceId |-> output.dId]

DecodeNode(node) ==
    [id |-> node.id, availableId |-> node.aId,
     inputs |-> SeqMap(DecodeInput, node.i),
     outputs |-> SeqMap(DecodeOutput, node.o)]

\* nodesForDevice
DecodeNodes(payload) == SeqMap(DecodeNode, payload.n)

validInputIds(nodes) ==
    UNION {{in.id : in \in Range(nodes[k].inputs)} : k \in DOMAIN nodes}

validOutputIds(nodes) ==
    UNION {{out.id : out \in Range(nodes[k].outputs)} : k \in DOMAIN nodes}

DecodeRelationship(rel) == [id |-> rel.id, inputId |-> rel.i, outputId |-> rel.o]

\* admission by the union of all port ids instead of inputs and outputs apart
Mutant_Admitted_Union(nodes, rel) ==
    /\ rel.i \in validInputIds(nodes) \cup validOutputIds(nodes)
    /\ rel.o \in validInputIds(nodes) \cup validOutputIds(nodes)

\* the test that keeps a relationship
Admitted(nodes, rel) ==
    /\ rel.i \in validInputIds(nodes)
    /\ rel.o \in validOutputIds(nodes)

\* relationshipsForDevice
DecodeRelationships(payload) ==
    LET nodes == DecodeNodes(payload)
        keep(rel) == Admitted(nodes, rel)
    IN SeqMap(DecodeRelationship, SelectSeq(payload.r, keep))

\* decodeLogicData that installs an empty graph when the payload does not parse
Mutant_decodeLogicData_ClearOnError(store, payload, deviceId) ==
    IF ~payload.parsed
    THEN [ok |-> FALSE,
          nodes |-> Put(store.nodes, deviceId, <<>>),
          rels |-> Put(store.rels, deviceId, <<>>)]
    ELSE [ok |-> TRUE,
          nodes |-> Put(store.nodes, deviceId, DecodeNodes(payload)),
          rels |-> Put(store.rels, deviceId, DecodeRelationships(payload))]

\* decodeLogicData that keeps the port values of nodes the new payload names again
Mutant_decodeLogicData_Merge(store, payload, deviceId) ==
    IF ~payload.parsed
    THEN [ok |-> FALSE, nodes |-> store.nodes, rels |-> store.rels]
    ELSE LET old == IF deviceId \in DOMAIN store.nodes THEN store.nodes[deviceId]
                    ELSE <<>>
             fresh == DecodeNodes(payload)
             kept(node) ==
                 IF \E k \in DOMAIN old : old[k].id = node.id
                                         /\ old[k].availableId = node.availableId
                 THEN old[CHOOSE k \in DOMAIN old : old[k].id = node.id
                                         /\ old[k].availableId = node.availableId]
                 ELSE node
         IN [ok |-> TRUE,
             nodes |-> Put(store.nodes, deviceId, SeqMap(kept, fresh)),
             rels |-> Put(store.rels, deviceId, DecodeRelationships(payload))]

\* bool decodeLogicData(const String &jsonPayload, int deviceId)
decodeLogicData(store, payload, deviceId) ==
    IF ~payload.parsed
    THEN [ok |-> FALSE, nodes |-> store.nodes, rels |-> store.rels]
    ELSE [ok |-> TRUE,
          nodes |-> Put(store.nodes, deviceId, DecodeNodes(payload)),
          rels |-> Put(store.rels, deviceId, DecodeRelationships(payload))]

(***************************************************************************)
(* topologicalSort.                                                        *)
(***************************************************************************)
\* std::map operator[] on a map of int: the entry, or 0
At(m, k) == IF k \in DOMAIN m THEN m[k] ELSE 0

RECURSIVE ConnectPorts(_, _, _)
ConnectPorts(m, ports, nodeId) ==
    IF ports = <<>> THEN m
    ELSE ConnectPorts(Put(m, Head(ports).id, nodeId), Tail(ports), nodeId)

RECURSIVE connectionToNodeMap(_, _)
\* port id -> id of the owning node; m holds the part built so far
connectionToNodeMap(m, nodes) ==
    IF nodes = <<>> THEN m
    ELSE LET node == Head(nodes)
         IN connectionToNodeMap(
                ConnectPorts(ConnectPorts(m, node.inputs, node.id),
                             node.outputs, node.id),
                Tail(nodes))

RECURSIVE BuildGraph(_, _, _)
\* graph (adjacency lists) and inDegree from the relationships in order
BuildGraph(acc, conn, relationships) ==
    IF relationships = <<>> THEN acc
    ELSE LET relationship == Head(relationships)
             inputNode == At(conn, relationship.inputId)
             outputNode == At(conn, relationship.outputId)
             adj == IF outputNode \in DOMAIN acc.graph THEN acc.graph[outputNode]
                    ELSE <<>>
             deg1 == Put(acc.inDegree, inputNode, At(acc.inDegree, inputNode) + 1)
             deg2 == IF outputNode \in DOMAIN deg1 THEN deg1
                     ELSE Put(deg1, outputNode, 0)
         IN BuildGraph([graph |-> Put(acc.graph, outputNode, Append(adj, inputNode)),
                        inDegree |-> deg2],
                       conn, Tail(relationships))

RECURSIVE Release(_, _)
\* the inner loop over graph[current]: decrement, enqueue at zero
Release(k, dependents) ==
    IF dependents = <<>> THEN k
    ELSE LET dependent == Head(dependents)
             deg == At(k.inDegree, dependent) - 1
         IN Release([k EXCEPT !.inDegree = Put(k.inDegree, dependent, deg),
                              !.queue = IF deg = 0 THEN Append(k.queue, dependent)
                                        ELSE k.queue],
                    Tail(dependents))

RECURSIVE Kahn(_, _)
\* the while loop over zeroInDegree
Kahn(k, graph) ==
    IF k.queue = <<>> THEN k
    ELSE LET current == Head(k.queue)
             popped == [k EXCEPT !.queue = Tail(k.queue),
                                 !.sortedOrder = Append(k.sortedOrder, current)]
         IN Kahn(Release(popped, IF current \in DOMAIN graph THEN graph[current]
                                 ELSE <<>>),
                 graph)

\* topologicalSort that enqueues a dependent at its first decrement
Mutant_topologicalSort_EagerEnqueue(nodes, relationships) ==
    LET built == BuildGraph([graph |-> EmptyMap, inDegree |-> EmptyMap],
                            connectionToNodeMap(EmptyMap, nodes), relationships)
        zero(n) == built.inDegree[n] = 0
        seeds == SelectSeq(SortedKeys(DOMAIN built.inDegree), zero)
        eager == [n \in DOMAIN built.inDegree |->
                     IF built.inDegree[n] > 1 THEN 1 ELSE built.inDegree[n]]
        done == Kahn([queue |-> seeds, inDegree |-> eager, sortedOrder |-> <<>>],
                     built.graph)
    IN IF Len(done.sortedOrder) # Cardinality(DOMAIN built.inDegree) THEN <<>>
       ELSE done.sortedOrder

\* topologicalSort without the test for cycles
Mutant_topologicalSort_NoCycleTest(nodes, relationships) ==
    LET built == BuildGraph([graph |-> EmptyMap, inDegree |-> EmptyMap],
                            connectionToNodeMap(EmptyMap, nodes), relationships)
        zero(n) == built.inDegree[n] = 0
        seeds == SelectSeq(SortedKeys(DOMAIN built.inDegree), zero)
        done == Kahn([queue |-> seeds, inDegree |-> built.inDegree,
                      sortedOrder |-> <<>>], built.graph)
    IN done.sortedOrder

\* topologicalSort that registers every node of the device with in-degree 0
Mutant_topologicalSort_RegisterEveryNode(nodes, relationships) ==
    LET built == BuildGraph([graph |-> EmptyMap,
                             inDegree |-> [id \in {nodes[k].id : k \in DOMAIN nodes} |-> 0]],
                            connectionToNodeMap(EmptyMap, nodes), relationships)
        zero(n) == built.inDegree[n] = 0
        seeds == SelectSeq(SortedKeys(DOMAIN built.inDegree), zero)
        done == Kahn([queue |-> seeds, inDegree |-> built.inDegree,
                      sortedOrder |-> <<>>], built.graph)
    IN IF Len(done.sortedOrder) # Cardinality(DOMAIN built.inDegree) THEN <<>>
       ELSE done.sortedOrder

\* std::vector<int> topologicalSort(int deviceId)
topologicalSort(nodes, relationships) ==
    LET built == BuildGraph([graph |-> EmptyMap, inDegree |-> EmptyMap],
                            connectionToNodeMap(EmptyMap, nodes), relationships)
        zero(n) == built.inDegree[n] = 0
        seeds == SelectSeq(SortedKeys(DOMAIN built.inDegree), zero)
        done == Kahn([queue |-> seeds, inDegree |-> built.inDegree,
                      sortedOrder |-> <<>>], built.graph)
    IN IF Len(done.sortedOrder) # Cardinality(DOMAIN built.inDegree) THEN <<>>
       ELSE done.sortedOrder

(***************************************************************************)
(* Characters and the conversions between strings, booleans and numbers.   *)
(***************************************************************************)
UpperCase == <<"A", "B", "C", "D", "E", "F", "G", "H", "I", "J", "K", "L", "M",
               "N", "O", "P", "Q", "R", "S", "T", "U", "V", "W", "X", "Y", "Z">>
LowerCase == <<"a", "b", "c", "d", "e", "f", "g", "h", "i", "j", "k", "l", "m",
               "n", "o", "p", "q", "r", "s", "t", "u", "v", "w", "x", "y", "z">>
Digits == <<"0", "1", "2", "3", "4", "5", "6", "7", "8", "9">>

\* ::tolower
tolower(c) ==
    IF \E k \in DOMAIN UpperCase : UpperCase[k] = c
    THEN LowerCase[CHOOSE k \in DOMAIN UpperCase : UpperCase[k] = c]
    ELSE c

\* std::transform(..., ::tolower)
ToLower(str) == SeqMap(tolower, str)

IsDigit(c) == \E k \in DOMAIN Digits : Digits[k] = c

DigitValue(c) == (CHOOSE k \in DOMAIN Digits : Digits[k] = c) - 1

\* the characters convertToBool trims: " \t\n\r"
IsTrimmed(c) == c \in {" ", "\t", "\n", "\r"}

\* isspace, which strtod skips at the start (vertical tab and form feed are
\* not among the characters of the model)
IsSpace(c) == c \in {" ", "\t", "\n", "\r"}

RECURSIVE DropWhile(_, _)
DropWhile(Op(_), str) ==
    IF str # <<>> /\ Op(Head(str)) THEN DropWhile(Op, Tail(str)) ELSE str

RECURSIVE DropLastWhile(_, _)
DropLastWhile(Op(_), str) ==
    IF str # <<>> /\ Op(str[Len(str)])
    THEN DropLastWhile(Op, SubSeq(str, 1, Len(str) - 1))
    ELSE str

\* erase(0, find_first_not_of(ws)); erase(find_last_not_of(ws) + 1)
Trim(str) == DropLastWhile(IsTrimmed, DropWhile(IsTrimmed, str))

RECURSIVE TakeDigits(_)
TakeDigits(str) ==
    IF str # <<>> /\ IsDigit(Head(str)) THEN <<Head(str)>> \o TakeDigits(Tail(str))
    ELSE <<>>

RECURSIVE DigitsToInt(_, _)
DigitsToInt(acc, str) ==
    IF str = <<>> THEN acc ELSE DigitsToInt(acc * 10 + DigitValue(Head(str)), Tail(str))

StartsWith(str, prefix) ==
    Len(str) >= Len(prefix) /\ SubSeq(str, 1, Len(prefix)) = prefix

(***************************************************************************)
(* A double is kept as a count of millionths (the six decimals             *)
(* std::to_string prints), or as not-a-number / infinite.                  *)
(***************************************************************************)
Micro == 1000000

Finite(v) == [ok |-> TRUE, fin |-> TRUE, v |-> v]
NonFinite == [ok |-> TRUE, fin |-> FALSE, v |-> 1]
NoConversion == [ok |-> FALSE, fin |-> TRUE, v |-> 0]

RECURSIVE PadRight(_, _)
PadRight(str, n) == IF Len(str) >= n THEN SubSeq(str, 1, n) ELSE PadRight(Append(str, "0"), n)

\* std::stod: leading white space, a sign, then "inf"/"nan" or decimal digits with
\* an optional fraction; the longest such prefix is converted, and no prefix throws.
\* Exponents and hexadecimal forms are not among the strings of the model.
stod(str) ==
    LET s0 == DropWhile(IsSpace, str)
        neg == s0 # <<>> /\ Head(s0) = "-"
        s1 == IF s0 # <<>> /\ Head(s0) \in {"+", "-"} THEN Tail(s0) ELSE s0
        low == ToLower(s1)
        int == TakeDigits(s1)
        rest == SubSeq(s1, Len(int) + 1, Len(s1))
        frac == IF rest # <<>> /\ Head(rest) = "." THEN TakeDigits(Tail(rest)) ELSE <<>>
        mag == DigitsToInt(0, int) * Micro + DigitsToInt(0, PadRight(frac, 6))
    IN IF StartsWith(low, <<"i", "n", "f">>) \/ StartsWith(low, <<"n", "a", "n">>)
       THEN NonFinite
       ELSE IF int = <<>> /\ frac = <<>> THEN NoConversion
       ELSE Finite(IF neg THEN 0 - mag ELSE mag)

RECURSIVE IntToString(_)
IntToString(n) ==
    IF n < 10 THEN <<Digits[n + 1]>>
    ELSE Append(IntToString(n \div 10), Digits[(n % 10) + 1])

RECURSIVE PadLeft(_, _)
PadLeft(str, n) == IF Len(str) >= n THEN str ELSE PadLeft(<<"0">> \o str, n)

\* std::to_string(double): "%f"
to_string(x) ==
    IF ~x.fin THEN <<"n", "a", "n">>
    ELSE LET mag == IF x.v < 0 THEN 0 - x.v ELSE x.v
         IN (IF x.v < 0 THEN <<"-">> ELSE <<>>)
            \o IntToString(mag \div Micro) \o <<".">>
            \o PadLeft(IntToString(mag % Micro), 6)

IsTrueWord(low) ==
    low \in {STrue, <<"1">>, <<"y", "e", "s">>, <<"o", "n">>}

IsFalseWord(low) ==
    low \in {SFalse, <<"0">>, <<"n", "o">>, <<"o", "f", "f">>}

Truthy(x) == x.ok /\ (~x.fin \/ x.v # 0)

\* bool convertToBool(const std::string &value)
convertToBool(value) ==
    LET trimmedValue == Trim(value)
        lowerValue == ToLower(trimmedValue)
    IN IF IsTrueWord(lowerValue) THEN TRUE
       ELSE IF IsFalseWord(lowerValue) THEN FALSE
       ELSE Truthy(stod(trimmedValue))

\* the conversion the boolean logic nodes apply to each input value
LogicInput(val) ==
    LET lowerVal == ToLower(val)
    IN IF IsTrueWord(lowerVal) THEN TRUE
       ELSE IF IsFalseWord(lowerVal) THEN FALSE
       ELSE Truthy(stod(val))

\* the conversion the math nodes apply to each input value
MathInput(val) ==
    LET x == stod(val) IN IF x.ok THEN x ELSE Finite(0)

BoolString(b) == IF b THEN STrue ELSE SFalse

(***************************************************************************)
(* The node functions.  A lambda that indexes its input vector past the    *)
(* end has undefined behaviour: the read yields whatever lies there (oob   *)
(* says which value) or the process faults.                                *)
(***************************************************************************)
OobOutcomes ==
    {[how |-> "fault", bit |-> FALSE, num |-> 0],
     [how |-> "garbage", bit |-> FALSE, num |-> 0],
     [how |-> "garbage", bit |-> TRUE, num |-> Micro]}

LogicIds == 1..7
MathIds == 8..27
UnaryMathIds == {13, 14, 15, 16, 25, 26, 27}

\* inputs[k - 1] of a std::vector<bool>
BitAt(inputs, k, ub) == IF k <= Len(inputs) THEN inputs[k] ELSE ub.bit

Missing(inputs, k) == k > Len(inputs)

\* nodeLogicMap with the NAND entry holding the AND lambda
Mutant_nodeLogic_NandAsAnd(availableId, inputs, ub) ==
    LET a == BitAt(inputs, 1, ub)
        b == BitAt(inputs, 2, ub)
        m1 == Missing(inputs, 1)
        m2 == Missing(inputs, 2)
    IN CASE availableId = 1 -> [v |-> ~a, oob |-> m1]
         [] availableId = 2 -> [v |-> a /\ b, oob |-> m1 \/ (a /\ m2)]
         [] availableId = 3 -> [v |-> a \/ b, oob |-> m1 \/ (~a /\ m2)]
         [] availableId = 4 -> [v |-> a # b, oob |-> m1 \/ m2]
         [] availableId = 5 -> [v |-> ~(a \/ b), oob |-> m1 \/ (~a /\ m2)]
         [] availableId = 6 -> [v |-> a /\ b, oob |-> m1 \/ (a /\ m2)]
         [] availableId = 7 -> [v |-> ~(a # b), oob |-> m1 \/ m2]

\* nodeLogicMap[1..7]: the value, and whether a read past the end was made
nodeLogic(availableId, inputs, ub) ==
    LET a == BitAt(inputs, 1, ub)
        b == BitAt(inputs, 2, ub)
        m1 == Missing(inputs, 1)
        m2 == Missing(inputs, 2)
    IN CASE availableId = 1 -> [v |-> ~a, oob |-> m1]
         [] availableId = 2 -> [v |-> a /\ b, oob |-> m1 \/ (a /\ m2)]
         [] availableId = 3 -> [v |-> a \/ b, oob |-> m1 \/ (~a /\ m2)]
         [] availableId = 4 -> [v |-> a # b, oob |-> m1 \/ m2]
         [] availableId = 5 -> [v |-> ~(a \/ b), oob |-> m1 \/ (~a /\ m2)]
         [] availableId = 6 -> [v |-> ~(a /\ b), oob |-> m1 \/ (a /\ m2)]
         [] availableId = 7 -> [v |-> ~(a # b), oob |-> m1 \/ m2]

Abs(n) == IF n < 0 THEN 0 - n ELSE n

Sign(a, b) == IF (a < 0) # (b < 0) THEN 0 - 1 ELSE 1

\* a * b of two counts of millionths, rounded to a millionth
MulMicro(a, b) ==
    LET ah == Abs(a) \div 1000
        al == Abs(a) % 1000
        bh == Abs(b) \div 1000
        bl == Abs(b) % 1000
        t == ah * bl + al * bh
    IN Sign(a, b) *
       (ah * bh + t \div 1000 + ((t % 1000) * 1000 + al * bl + 500000) \div Micro)

RECURSIVE LongDivision(_, _, _, _)
\* n more decimal digits of r / d appended to q
LongDivision(q, r, d, n) ==
    IF n = 0 THEN (IF 2 * r >= d THEN q + 1 ELSE q)
    ELSE LongDivision(q * 10 + (r * 10) \div d, (r * 10) % d, d, n - 1)

\* a / b (b # 0) of two counts of millionths, rounded to a millionth
DivMicro(a, b) ==
    Sign(a, b) * LongDivision(Abs(a) \div Abs(b), Abs(a) % Abs(b), Abs(b), 6)

Floor(a) == (a \div Micro) * Micro

Ceil(a) == IF a % Micro = 0 THEN a ELSE Floor(a) + Micro

\* round(): halves away from zero
Round(a) == IF a >= 0 THEN Floor(a + Micro \div 2) ELSE 0 - Floor((0 - a) + Micro \div 2)

Flag(b) == IF b THEN Micro ELSE 0

NumAt(inputs, k, ub) == IF k <= Len(inputs) THEN inputs[k] ELSE Finite(ub.num)

\* mathNodeMap with DIVIDE dividing whatever the divisor is
Mutant_mathNode_UnguardedDivide(availableId, inputs, ub) ==
    LET x == NumAt(inputs, 1, ub)
        y == NumAt(inputs, 2, ub)
        a == x.v
        b == y.v
        unary == availableId \in UnaryMathIds
        r == CASE availableId = 8 -> a + b
               [] availableId = 9 -> a - b
               [] availableId = 10 -> MulMicro(a, b)
               [] availableId = 11 -> IF b # 0 THEN DivMicro(a, b) ELSE 0
               [] availableId = 15 -> Abs(a)
               [] availableId = 17 -> IF b < a THEN b ELSE a
               [] availableId = 18 -> IF a < b THEN b ELSE a
               [] availableId = 19 -> Flag(a < b)
               [] availableId = 20 -> Flag(a > b)
               [] availableId = 21 -> Flag(a <= b)
               [] availableId = 22 -> Flag(a >= b)
               [] availableId = 23 -> Flag(a = b)
               [] availableId = 24 -> Flag(a # b)
               [] availableId = 25 -> Round(a)
               [] availableId = 26 -> Floor(a)
               [] availableId = 27 -> Ceil(a)
    IN [v |-> IF x.fin /\ (unary \/ y.fin) /\ ~(availableId = 11 /\ b = 0)
              THEN Finite(r) ELSE NonFinite,
        oob |-> Missing(inputs, 1) \/ (~unary /\ Missing(inputs, 2))]

\* mathNodeMap[8..27] on finite operands (POWER, LOGARITHM, SQUARE ROOT and
\* EXPONENT have no arm: no node of the model uses them); an operand that is
\* not finite makes the result not finite
mathNode(availableId, inputs, ub) ==
    LET x == NumAt(inputs, 1, ub)
        y == NumAt(inputs, 2, ub)
        a == x.v
        b == y.v
        unary == availableId \in UnaryMathIds
        r == CASE availableId = 8 -> a + b
               [] availableId = 9 -> a - b
               [] availableId = 10 -> MulMicro(a, b)
               [] availableId = 11 -> IF b # 0 THEN DivMicro(a, b) ELSE 0
               [] availableId = 15 -> Abs(a)
               [] availableId = 17 -> IF b < a THEN b ELSE a
               [] availableId = 18 -> IF a < b THEN b ELSE a
               [] availableId = 19 -> Flag(a < b)
               [] availableId = 20 -> Flag(a > b)
               [] availableId = 21 -> Flag(a <= b)
               [] availableId = 22 -> Flag(a >= b)
               [] availableId = 23 -> Flag(a = b)
               [] availableId = 24 -> Flag(a # b)
               [] availableId = 25 -> Round(a)
               [] availableId = 26 -> Floor(a)
               [] availableId = 27 -> Ceil(a)
    IN [v |-> IF x.fin /\ (unary \/ y.fin) THEN Finite(r) ELSE NonFinite,
        oob |-> Missing(inputs, 1) \/ (~unary /\ Missing(inputs, 2))]

\* std::to_string(result), and "1.0" for a result equal to 1.0
MathString(x) == IF x.fin /\ x.v = Micro THEN <<"1", ".", "0">> ELSE to_string(x)

(***************************************************************************)
(* evaluateNodeInput.  st holds the node vector of the device, the map     *)
(* calculatedOutputValues, the ids of the nodes whose function has run in  *)
(* this call, and whether the call has faulted; env holds the device's     *)
(* relationships, deviceValues and the outcome of reads past the end.      *)
(***************************************************************************)
FirstIndex(nodes, nodeId) ==
    IF \E k \in DOMAIN nodes : nodes[k].id = nodeId
    THEN Min({k \in DOMAIN nodes : nodes[k].id = nodeId})
    ELSE 0

RECURSIVE Flatten(_)
Flatten(ss) == IF ss = <<>> THEN <<>> ELSE Head(ss) \o Flatten(Tail(ss))

\* for the relationships into inputId, in order, and every node and output whose
\* id is the relationship's outputId: the node id and the output id
Producers(nodes, relationships, inputId) ==
    LET into(rel) == rel.inputId = inputId
        ofNode(rel, node) ==
            LET hit(out) == out.id = rel.outputId
                pair(out) == <<node.id, out.id>>
            IN SeqMap(pair, SelectSeq(node.outputs, hit))
        ofRel(rel) ==
            LET each(node) == ofNode(rel, node)
            IN Flatten(SeqMap(each, nodes))
    IN Flatten(SeqMap(ofRel, SelectSeq(relationships, into)))

\* output.data = str; calculatedOutputValues[output.id] = str, for every output
RECURSIVE WriteOutputs(_, _, _, _)
WriteOutputs(st, k, j, str) ==
    IF j > Len(st.nodes[k].outputs) THEN st
    ELSE WriteOutputs([st EXCEPT !.nodes[k].outputs[j].data = str,
                                 !.memo = Put(st.memo, st.nodes[k].outputs[j].id, str)],
                      k, j + 1, str)

\* the device-source node: each output whose deviceId has a value takes it
RECURSIVE ReadDeviceValues(_, _, _, _)
ReadDeviceValues(st, k, j, values) ==
    IF j > Len(st.nodes[k].outputs) THEN st
    ELSE LET output == st.nodes[k].outputs[j]
         IN ReadDeviceValues(
                IF output.deviceId \in DOMAIN values
                THEN [st EXCEPT !.nodes[k].outputs[j].data = values[output.deviceId],
                                !.memo = Put(st.memo, output.id, values[output.deviceId])]
                ELSE st,
                k, j + 1, values)

\* the outputs of node k after its function returned r, or the fault of a read
\* past the end of the inputs
Outcome(st, k, r, str, env) ==
    IF r.oob /\ env.ub.how = "fault" THEN [st EXCEPT !.fault = TRUE]
    ELSE WriteOutputs(st, k, 1, str)

LogicOutcome(st, k, r, env) == Outcome(st, k, r, BoolString(r.v), env)

MathOutcome(st, k, r, env) == Outcome(st, k, r, MathString(r.v), env)

\* the branch on node->availableId, the node's function having been entered
Branch(st, k, availableId, inputValues, env) ==
    IF availableId = 30 THEN ReadDeviceValues(st, k, 1, env.values)
    ELSE IF availableId = 28 THEN st
    ELSE IF availableId \in LogicIds
    THEN LogicOutcome(st, k,
                      nodeLogic(availableId, SeqMap(LogicInput, inputValues), env.ub),
                      env)
    ELSE IF availableId \in MathIds
    THEN MathOutcome(st, k,
                     mathNode(availableId, SeqMap(MathInput, inputValues), env.ub),
                     env)
    ELSE st

Dispatch(st, k, inputValues, env) ==
    Branch([st EXCEPT !.evals = Append(st.evals, st.nodes[k].id)], k,
           st.nodes[k].availableId, inputValues, env)

\* inputValue = calculatedOutputValues[output.id], which inserts "" when absent;
\* input.data = inputValue
TakeOutput(st, k, j, outputId) ==
    IF outputId \in DOMAIN st.memo
    THEN [st EXCEPT !.nodes[k].inputs[j].data = st.memo[outputId]]
    ELSE [st EXCEPT !.memo = Put(st.memo, outputId, SEmpty),
                    !.nodes[k].inputs[j].data = SEmpty]

RECURSIVE calculateNodeValues(_, _, _)
RECURSIVE FeedInput(_, _, _, _, _)
RECURSIVE GatherInputs(_, _, _, _, _)

\* the loops over relationships, nodes and outputs for input j of node k: the
\* state after them; the input's data is then the value pushed to inputValues
FeedInput(st, k, j, producers, env) ==
    IF producers = <<>> \/ st.fault THEN st
    ELSE LET Fed(st1) ==
                 IF st1.fault THEN st1
                 ELSE FeedInput(TakeOutput(st1, k, j, Head(producers)[2]), k, j,
                                Tail(producers), env)
         IN Fed(calculateNodeValues(st, Head(producers)[1], env))

\* the loop over node->inputs
GatherInputs(st, k, j, inputValues, env) ==
    IF j > Len(st.nodes[k].inputs) \/ st.fault
    THEN [st |-> st, inputValues |-> inputValues]
    ELSE LET Gathered(fed) ==
                 GatherInputs(fed, k, j + 1,
                              Append(inputValues, fed.nodes[k].inputs[j].data), env)
         IN Gathered(FeedInput(st, k, j,
                               Producers(st.nodes, env.rels, st.nodes[k].inputs[j].id),
                               env))

\* the lambda calculateNodeValues
calculateNodeValues(st, nodeId, env) ==
    IF st.fault \/ nodeId \in DOMAIN st.memo \/ FirstIndex(st.nodes, nodeId) = 0 THEN st
    ELSE LET Run(k, gathered) ==
                 IF gathered.st.fault THEN gathered.st
                 ELSE Dispatch(gathered.st, k, gathered.inputValues, env)
             From(k) == Run(k, GatherInputs(st, k, 1, <<>>, env))
         IN From(FirstIndex(st.nodes, nodeId))

\* what evaluateNodeInput returns for the target node at index k
Decision(st, k, env) ==
    IF st.fault THEN FALSE
    ELSE IF k = 0 THEN FALSE
    ELSE IF st.nodes[k].availableId = 28 /\ st.nodes[k].inputs # <<>>
    THEN convertToBool(st.nodes[k].inputs[1].data)
    ELSE /\ st.nodes[k].outputs # <<>>
         /\ st.nodes[k].outputs[1].id \in DOMAIN st.memo
         /\ st.memo[st.nodes[k].outputs[1].id] = STrue

\* evaluateNodeInput that decides from the port values it found
Mutant_evaluateNodeInput_StaleDecision(nodes, targetNodeId, env) ==
    LET Returned(st, k) ==
            [nodes |-> st.nodes, evals |-> st.evals,
             fault |-> st.fault \/ (k = 0 /\ env.ub.how = "fault"),
             result |-> Decision([st EXCEPT !.nodes = nodes], k, env)]
    IN Returned(calculateNodeValues([nodes |-> nodes, memo |-> EmptyMap,
                                     evals |-> <<>>, fault |-> FALSE],
                                    targetNodeId, env),
                FirstIndex(nodes, targetNodeId))

\* bool evaluateNodeInput(int deviceId, int targetNodeId): the node vector it
\* leaves, the nodes whose function ran, the value returned, and whether it
\* faulted (targetNode->outputs through a null pointer included)
evaluateNodeInput(nodes, targetNodeId, env) ==
    LET Returned(st, k) ==
            [nodes |-> st.nodes, evals |-> st.evals,
             fault |-> st.fault \/ (k = 0 /\ env.ub.how = "fault"),
             result |-> Decision(st, k, env)]
    IN Returned(calculateNodeValues([nodes |-> nodes, memo |-> EmptyMap,
                                     evals |-> <<>>, fault |-> FALSE],
                                    targetNodeId, env),
                FirstIndex(nodes, targetNodeId))

(***************************************************************************)
(* The scenarios of the specification, as complete call histories.         *)
(***************************************************************************)
Ev(op, dev, val, t) ==
    [op |-> op, dev |-> dev, val |-> val, t |-> t,
     cb |-> TRUE, dur |-> DefaultDebounceDuration]

DebounceScenario(d) ==
    <<Ev("pdc", d, TRUE, 0), Ev("pdc", d, FALSE, 2000),
      Ev("pdc", d, TRUE, 4000), Ev("tick", 0, FALSE, 15000)>>

StableScenario(d) ==
    <<Ev("pdc", d, TRUE, 0), Ev("tick", 0, FALSE, 10001),
      Ev("tick", 0, FALSE, 20000)>>

Scenarios == {DebounceScenario(d) : d \in Devices} \cup {StableScenario(d) : d \in Devices}

Key(e) == [op |-> e.op, dev |-> e.dev, val |-> e.val, t |-> e.t,
           cb |-> e.cb, dur |-> e.dur]

OffScript ==
    <<[op |-> "off", dev |-> 0, val |-> FALSE, t |-> 0, cb |-> FALSE, dur |-> 0,
       calls |-> <<>>]>>

Follows(h, sc) ==
    /\ Len(h) <= Len(sc)
    /\ \A i \in 1..Len(h) : Key(h[i]) = sc[i]

\* the history with one more gate call
Record(h, e) ==
    IF h # OffScript /\ \E sc \in Scenarios : Follows(Append(h, e), sc)
    THEN Append(h, e)
    ELSE OffScript

GateEvent(op, dev, val, calls) ==
    [op |-> op, dev |-> dev, val |-> val, t |-> now, cb |-> callback,
     dur |-> debounceDuration, calls |-> calls]

NoPre == [pv |-> EmptyMap, ltt |-> EmptyMap]

\* the record of a handler call: its arguments, the time it ran at, the callback
\* invocations it made and the gate entries it found
Step(op, dev, val, calls, pre) ==
    [op |-> op, dev |-> dev, val |-> val, t |-> now, calls |-> calls, pre |-> pre,
     ok |-> TRUE, payload |-> Unparsable]

\* some output port holds a value written by an evaluation pass
Written(nodes) ==
    \E k \in DOMAIN nodes : \E j \in DOMAIN nodes[k].outputs :
        nodes[k].outputs[j].data # SEmpty

\* the record of a decodeLogicData call: its arguments, its return value, and
\* whether the graph it found for the device held written port values
DecodeStep(deviceId, payload, ok) ==
    [op |-> "decode", dev |-> deviceId,
     val |-> deviceId \in DOMAIN deviceNodes /\ Written(deviceNodes[deviceId]),
     t |-> now, calls |-> <<>>, pre |-> NoPre, ok |-> ok, payload |-> payload]

(***************************************************************************)
(* updateDeviceValues.  A value payload is either unparsable or the array  *)
(* sensorArray of (deviceId, value) with a boolean or a numeric value.     *)
(***************************************************************************)
UnparsableValues == [parsed |-> FALSE, sensorArray |-> <<>>]

Values(sensorArray) == [parsed |-> TRUE, sensorArray |-> sensorArray]

Sensor(deviceId, value) == [deviceId |-> deviceId, value |-> value]

BoolValue(b) == [type |-> "bool", b |-> b, v |-> 0]

NumValue(v) == [type |-> "number", b |-> FALSE, v |-> v]

\* valueStr of one sensor
valueStr(value) ==
    IF value.type = "bool" THEN BoolString(value.b) ELSE to_string(Finite(value.v))

RECURSIVE StoreValues(_, _)
\* the loop over sensorArray
StoreValues(values, sensorArray) ==
    IF sensorArray = <<>> THEN values
    ELSE StoreValues(Put(values, Head(sensorArray).deviceId,
                         valueStr(Head(sensorArray).value)),
                     Tail(sensorArray))

StoredRelationships(d) ==
    IF d \in DOMAIN deviceRelationships THEN deviceRelationships[d] ELSE <<>>

\* processDeviceChange(deviceId, outputData) within a pass
Handed(ps, deviceId, nodeId, outputData, g) ==
    [ps EXCEPT !.g = [g EXCEPT !.calls = ps.g.calls \o g.calls],
               !.hist = Record(ps.hist, GateEvent("pdc", deviceId, outputData, g.calls)),
               !.pdc = Append(ps.pdc, <<deviceId, outputData>>),
               !.from = Append(ps.from, nodeId)]

RECURSIVE Mutant_Decide_KeyedByNode(_, _, _, _, _)
\* the loop handing the decision to the gate under the terminal node's own id
Mutant_Decide_KeyedByNode(ps, deviceId, nodeId, outputData, k) ==
    IF k > Len(ps.nodes[deviceId]) THEN ps
    ELSE Mutant_Decide_KeyedByNode(
             IF ps.nodes[deviceId][k].id = nodeId
                /\ ps.nodes[deviceId][k].availableId = 28
             THEN Handed(ps, nodeId, nodeId, outputData,
                         processDeviceChange([ps.g EXCEPT !.calls = <<>>], nodeId,
                                             outputData))
             ELSE ps,
             deviceId, nodeId, outputData, k + 1)

RECURSIVE Decide(_, _, _, _, _)
\* the loop over nodes that hands a terminal node's decision to the gate
Decide(ps, deviceId, nodeId, outputData, k) ==
    IF k > Len(ps.nodes[deviceId]) THEN ps
    ELSE Decide(IF ps.nodes[deviceId][k].id = nodeId
                   /\ ps.nodes[deviceId][k].availableId = 28
                THEN Handed(ps, deviceId, nodeId, outputData,
                            processDeviceChange([ps.g EXCEPT !.calls = <<>>], deviceId,
                                                outputData))
                ELSE ps,
                deviceId, nodeId, outputData, k + 1)

\* the state of the pass after evaluateNodeInput returned r for nodeId
Evaluated(ps, deviceId, nodeId, r) ==
    IF r.fault
    THEN [ps EXCEPT !.nodes[deviceId] = r.nodes, !.fault = TRUE,
                    !.evals[deviceId] = ps.evals[deviceId] \o r.evals]
    ELSE Decide([ps EXCEPT !.nodes[deviceId] = r.nodes,
                           !.ran[deviceId] = Append(ps.ran[deviceId], nodeId),
                           !.evals[deviceId] = ps.evals[deviceId] \o r.evals],
                deviceId, nodeId, r.result, 1)

RECURSIVE RunSchedule(_, _, _, _)
\* the loop over sortedNodes
RunSchedule(ps, deviceId, sortedNodes, ub) ==
    IF sortedNodes = <<>> \/ ps.fault THEN ps
    ELSE RunSchedule(Evaluated(ps, deviceId, Head(sortedNodes),
                               evaluateNodeInput(ps.nodes[deviceId], Head(sortedNodes),
                                                 [rels |-> StoredRelationships(deviceId),
                                                  values |-> ps.values, ub |-> ub])),
                     deviceId, Tail(sortedNodes), ub)

\* one device of the pass, its schedule being sortedNodes
RunDevice(ps, deviceId, sortedNodes, ub) ==
    RunSchedule([ps EXCEPT !.sched = Put(ps.sched, deviceId, sortedNodes),
                           !.ran = Put(ps.ran, deviceId, <<>>),
                           !.evals = Put(ps.evals, deviceId, <<>>)],
                deviceId, sortedNodes, ub)

RECURSIVE RunDevices(_, _, _)
\* the loop over deviceNodes
RunDevices(ps, keys, ub) ==
    IF keys = <<>> \/ ps.fault THEN ps
    ELSE RunDevices(RunDevice(ps, Head(keys),
                              topologicalSort(ps.nodes[Head(keys)],
                                              StoredRelationships(Head(keys))),
                              ub),
                    Tail(keys), ub)

\* void updateDeviceValues(String &valueString): the node vectors, the value
\* table and the gate it leaves, with the schedule computed for each device
\* (sched), the nodes evaluateNodeInput was called for (ran), the nodes whose
\* function ran, once for each time it ran (evals), and the decisions handed to
\* processDeviceChange (pdc) with the terminal nodes they came from (from)
updateDeviceValues(valueString, ub) ==
    LET start == [nodes |-> deviceNodes, values |-> deviceValues,
                  g |-> Gate(lastTriggerTime, pendingValues), fault |-> FALSE,
                  hist |-> hist, sched |-> EmptyMap, ran |-> EmptyMap,
                  evals |-> EmptyMap, pdc |-> <<>>, from |-> <<>>, ok |-> FALSE]
    IN IF ~valueString.parsed THEN start
       ELSE RunDevices([start EXCEPT !.values = StoreValues(deviceValues,
                                                            valueString.sensorArray),
                                     !.ok = TRUE],
                       SortedKeys(DOMAIN deviceNodes), ub)

\* the record of an updateDeviceValues call; found holds the node vectors the
\* call found, and afterFailedDecode says that the call before it was a
\* decodeLogicData that returned false
UpdateStep(valueString, ps) ==
    [op |-> "update", dev |-> 0, val |-> FALSE, t |-> now, calls |-> ps.g.calls,
     pre |-> NoPre, ok |-> ps.ok, payload |-> Unparsable, values |-> valueString,
     sched |-> ps.sched, ran |-> ps.ran, evals |-> ps.evals, pdc |-> ps.pdc,
     from |-> ps.from, found |-> deviceNodes,
     afterFailedDecode |-> last.op = "decode" /\ ~last.ok]

(***************************************************************************)
(* Initial state: the state after the constructor.                         *)
(***************************************************************************)
\* the callback was invoked for deviceId at the time now by the handler `by`: the
\* time since the invocation before it for that device, which handler made that
\* one, and the debounce duration in force
Invocation(at, deviceId, by) ==
    IF deviceId \in DOMAIN at
    THEN [t |-> now, by |-> by, first |-> FALSE, gap |-> now - at[deviceId].t,
          after |-> at[deviceId].by, dur |-> debounceDuration]
    ELSE [t |-> now, by |-> by, first |-> TRUE, gap |-> 0, after |-> by,
          dur |-> debounceDuration]

RECURSIVE Invocations(_, _, _)
\* the record of invocations after the callback invocations `calls` of one handler
Invocations(h, calls, by) ==
    IF ~h.on \/ calls = <<>> THEN h
    ELSE Invocations([h EXCEPT !.at = Put(h.at, Head(calls)[1],
                                          Invocation(h.at, Head(calls)[1], by))],
                     Tail(calls), by)

Init ==
    /\ deviceNodes = EmptyMap
    /\ deviceRelationships = EmptyMap
    /\ deviceValues = EmptyMap
    /\ lastTriggerTime = EmptyMap
    /\ pendingValues = EmptyMap
    /\ callback = FALSE
    /\ debounceDuration = DefaultDebounceDuration
    /\ now = 0
    /\ fault = FALSE
    /\ quiet = {}
    /\ last = Step("init", 0, FALSE, <<>>, NoPre)
    /\ hist = <<>>
    /\ dispatched = [on |-> FALSE, at |-> EmptyMap]

(***************************************************************************)
(* Actions.                                                                *)
(***************************************************************************)
\* void setCallback(std::function<void(int, bool)> callbackFunc)
SetCallback(cb) ==
    /\ ~fault
    /\ callback' = cb
    /\ last' = Step("setCallback", 0, cb, <<>>, NoPre)
    /\ UNCHANGED <<graphVars, gateVars, debounceDuration, now, fault, quiet, hist, dispatched>>

\* void setDebounceDuration(unsigned long duration)
SetDebounceDuration(duration) ==
    /\ ~fault
    /\ debounceDuration' = duration
    /\ last' = Step("setDebounceDuration", 0, FALSE, <<>>, NoPre)
    /\ UNCHANGED <<graphVars, gateVars, callback, now, fault, quiet, hist, dispatched>>

\* millis() moves on
AdvanceClock(t) ==
    /\ ~fault
    /\ t > now
    /\ now' = t
    /\ UNCHANGED <<graphVars, gateVars, callback, debounceDuration, fault, quiet,
                   last, hist, dispatched>>

\* bool decodeLogicData(const String &jsonPayload, int deviceId)
DecodeLogicData(payload, deviceId) ==
    /\ ~fault
    /\ LET r == decodeLogicData([nodes |-> deviceNodes, rels |-> deviceRelationships],
                                payload, deviceId)
       IN /\ deviceNodes' = r.nodes
          /\ deviceRelationships' = r.rels
          /\ last' = DecodeStep(deviceId, payload, r.ok)
    /\ UNCHANGED <<deviceValues, gateVars, callback, debounceDuration, now, fault,
                   quiet, hist, dispatched>>

\* the 32-bit millisecond counter overflows and starts again
WrapClock ==
    /\ ~fault
    /\ \A t \in Times : t <= now
    /\ now' = 0
    /\ UNCHANGED <<graphVars, gateVars, callback, debounceDuration, fault, quiet,
                   last, hist, dispatched>>

\* from here on the environment sends no decision for deviceId
Quiesce(deviceId) ==
    /\ ~fault
    /\ deviceId \notin quiet
    /\ quiet' = quiet \cup {deviceId}
    /\ UNCHANGED <<graphVars, gateVars, callback, debounceDuration, now, fault,
                   last, hist, dispatched>>

\* a terminal decision reaches the gate: the call of processDeviceChange that
\* updateDeviceValues makes for a terminal node, taken by itself
ProcessDeviceChange(deviceId, newValue) ==
    /\ ~fault
    /\ deviceId \notin quiet
    /\ LET g == processDeviceChange(Gate(lastTriggerTime, pendingValues),
                                    deviceId, newValue)
       IN /\ lastTriggerTime' = g.ltt
          /\ pendingValues' = g.pv
          /\ last' = Step("pdc", deviceId, newValue, g.calls,
                        [pv |-> Restrict(pendingValues, deviceId),
                         ltt |-> Restrict(lastTriggerTime, deviceId)])
          /\ hist' = Record(hist, GateEvent("pdc", deviceId, newValue, g.calls))
          /\ dispatched' = Invocations(dispatched, g.calls, "pdc")
    /\ UNCHANGED <<graphVars, callback, debounceDuration, now, fault, quiet>>

\* the periodic tick
ProcessPendingChanges ==
    /\ ~fault
    /\ \E ub \in EraseOutcomes :
         LET g == processPendingChanges(Gate(lastTriggerTime, pendingValues), ub)
         IN /\ lastTriggerTime' = g.ltt
            /\ pendingValues' = g.pv
            /\ fault' = g.fault
            /\ last' = Step("tick", 0, FALSE, g.calls, NoPre)
            /\ hist' = Record(hist, GateEvent("tick", 0, FALSE, g.calls))
            /\ dispatched' = Invocations(dispatched, g.calls, "tick")
    /\ UNCHANGED <<graphVars, callback, debounceDuration, now, quiet>>

\* void updateDeviceValues(String &valueString)
UpdateDeviceValues(valueString) ==
    /\ ~fault
    /\ \E ub \in OobOutcomes :
         \E ps \in {updateDeviceValues(valueString, ub)} :
            /\ deviceNodes' = ps.nodes
            /\ deviceValues' = ps.values
            /\ lastTriggerTime' = ps.g.ltt
            /\ pendingValues' = ps.g.pv
            /\ fault' = ps.fault
            /\ hist' = ps.hist
            /\ last' = UpdateStep(valueString, ps)
            /\ dispatched' = Invocations(dispatched, ps.g.calls, "pdc")
    /\ UNCHANGED <<deviceRelationships, callback, debounceDuration, now, quiet>>

(***************************************************************************)
(* The loader and the evaluation pass: graphs are loaded for two devices   *)
(* and sensor 1 reports booleans, at one instant of the clock.  Every      *)
(* graph reads sensor 1 and ends in a terminal node; two of them hold a    *)
(* cycle beside that path.                                                 *)
(***************************************************************************)
SourceNode == PNode(1, 30, <<>>, <<POut(11, 1)>>)

TerminalNode == PNode(4, 28, <<PIn(41, NoData)>>, <<>>)

NotNode(id, in, out) == PNode(id, 1, <<PIn(in, NoData)>>, <<POut(out, 0)>>)

DirectGraph == Payload(<<SourceNode, TerminalNode>>, <<PRel(1, 41, 11)>>)

SelfLoopGraph ==
    Payload(<<SourceNode, NotNode(3, 31, 32), TerminalNode>>,
            <<PRel(1, 41, 11), PRel(2, 31, 32)>>)

TwoCycleGraph ==
    Payload(<<SourceNode, NotNode(3, 31, 32), NotNode(5, 51, 52), TerminalNode>>,
            <<PRel(1, 41, 11), PRel(2, 31, 52), PRel(3, 51, 32)>>)

GraphPayloads == {DirectGraph, SelfLoopGraph, TwoCycleGraph, Unparsable}

ValuePayloads ==
    {UnparsableValues} \cup {Values(<<Sensor(1, BoolValue(b))>>) : b \in BOOLEAN}

Next ==
    \/ \E cb \in BOOLEAN : SetCallback(cb)
    \/ \E p \in GraphPayloads, d \in Devices : DecodeLogicData(p, d)
    \/ \E v \in ValuePayloads : UpdateDeviceValues(v)

Spec == Init /\ [][Next]_vars

(***************************************************************************)
(* Evaluation passes over one device's graph: sensors 1 and 2 report       *)
(* booleans, and the graph is one of                                       *)
(*   - a source feeding a terminal through a NOT node;                     *)
(*   - a diamond: a source feeding two NOT nodes that feed an AND node;    *)
(*   - two sources feeding an AND node, the id of the second source being  *)
(*     the id of the first source's output port;                           *)
(*   - a node of a kind in neither table between a source and a terminal   *)
(*     whose input carries a value of its own;                             *)
(*   - a source feeding a terminal beside a NOT node and a terminal that   *)
(*     no relationship touches;                                            *)
(*   - a source feeding the second input of a terminal whose first input   *)
(*     carries a value of its own.                                         *)
(***************************************************************************)
InvertedGraph ==
    Payload(<<SourceNode, NotNode(3, 31, 32), TerminalNode>>,
            <<PRel(1, 31, 11), PRel(2, 41, 32)>>)

AndNode(id, in1, in2, out) ==
    PNode(id, 2, <<PIn(in1, NoData), PIn(in2, NoData)>>, <<POut(out, 0)>>)

DiamondGraph ==
    Payload(<<SourceNode, NotNode(2, 21, 22), NotNode(3, 31, 32),
              AndNode(5, 51, 52, 53), TerminalNode>>,
            <<PRel(1, 21, 11), PRel(2, 31, 11), PRel(3, 51, 22), PRel(4, 52, 32),
              PRel(5, 41, 53)>>)

SharedIdGraph ==
    Payload(<<PNode(1, 30, <<>>, <<POut(7, 1)>>), PNode(7, 30, <<>>, <<POut(8, 2)>>),
              AndNode(5, 51, 52, 53), TerminalNode>>,
            <<PRel(1, 51, 7), PRel(2, 52, 8), PRel(3, 41, 53)>>)

UnknownKind == 99

UnknownKindGraph ==
    Payload(<<SourceNode,
              PNode(6, UnknownKind, <<PIn(61, NoData)>>, <<POut(62, 0)>>),
              PNode(4, 28, <<PIn(41, STrue)>>, <<>>)>>,
            <<PRel(1, 61, 11), PRel(2, 41, 62)>>)

IsolatedGraph ==
    Payload(<<SourceNode, TerminalNode,
              PNode(3, 1, <<PIn(31, STrue)>>, <<POut(32, 0)>>),
              PNode(8, 28, <<PIn(81, STrue)>>, <<>>)>>,
            <<PRel(1, 41, 11)>>)

SecondInputGraph ==
    Payload(<<SourceNode, PNode(4, 28, <<PIn(41, STrue), PIn(42, NoData)>>, <<>>)>>,
            <<PRel(1, 42, 11)>>)

EvalGraphs ==
    {InvertedGraph, DiamondGraph, SharedIdGraph, UnknownKindGraph, IsolatedGraph,
     SecondInputGraph}

Readings ==
    {Values(<<Sensor(sensor, BoolValue(b))>>) : sensor \in {1, 2}, b \in BOOLEAN}

EvalNext ==
    \/ SetCallback(TRUE)
    \/ \E p \in EvalGraphs : DecodeLogicData(p, 1)
    \/ \E v \in Readings : UpdateDeviceValues(v)

EvalSpec == Init /\ [][EvalNext]_vars

(***************************************************************************)
(* Single nodes: a boolean gate or a DIVIDE node whose two inputs carry    *)
(* values of their own and whose first output feeds a terminal node.       *)
(***************************************************************************)
BinaryNodeGraph(aId, d1, d2) ==
    Payload(<<PNode(2, aId, <<PIn(21, d1), PIn(22, d2)>>,
                    <<POut(23, 0), POut(24, 0)>>),
              TerminalNode>>,
            <<PRel(1, 41, 23)>>)

BoolWords == {STrue, SFalse}

\* " true ", "ON ", "Yes", "1", " 0", "off", "2.5", "abc", "null", ""
GateWords ==
    {<<" ", "t", "r", "u", "e", " ">>, <<"O", "N", " ">>, <<"Y", "e", "s">>,
     <<"1">>, <<" ", "0">>, <<"o", "f", "f">>, <<"2", ".", "5">>,
     <<"a", "b", "c">>, SNull, SEmpty}

\* "5", "-3", "0"
Dividends == {<<"5">>, <<"-", "3">>, <<"0">>}

\* "2", "-2", "5", "0", "0.0", "null", "abc"
Divisors ==
    {<<"2">>, <<"-", "2">>, <<"5">>, <<"0">>, <<"0", ".", "0">>, SNull,
     <<"a", "b", "c">>}

NodeGraphs ==
    {BinaryNodeGraph(aId, a, b) : aId \in LogicIds, a \in BoolWords, b \in BoolWords}
    \cup {BinaryNodeGraph(1, a, SFalse) : a \in GateWords}
    \cup {BinaryNodeGraph(11, x, y) : x \in Dividends, y \in Divisors}

NodeNext ==
    \/ \E p \in NodeGraphs : DecodeLogicData(p, 1)
    \/ UpdateDeviceValues(Values(<<>>))

NodeSpec == Init /\ [][NodeNext]_vars

(***************************************************************************)
(* Graphs with a node that has fewer ports than its function reads.        *)
(***************************************************************************)
\* a node with the given inputs feeding the terminal node
ShortNodeGraph(aId, ins) ==
    Payload(<<PNode(2, aId, ins, <<POut(23, 0)>>), TerminalNode>>,
            <<PRel(1, 41, 23)>>)

\* a gate with no outputs behind the source
NoOutputGraph(aId) ==
    Payload(<<SourceNode, PNode(3, aId, <<PIn(31, NoData)>>, <<>>)>>,
            <<PRel(1, 31, 11)>>)

\* NOT .. XNOR, ADD, DIVIDE, SQRT
MalformedKinds == LogicIds \cup {8, 11, 15}

ShortInputs == {<<>>} \cup {<<PIn(21, d)>> : d \in BoolWords}

MalformedGraphs ==
    {ShortNodeGraph(aId, ins) : aId \in MalformedKinds, ins \in ShortInputs}
    \cup {NoOutputGraph(aId) : aId \in {1, 2}}

MalformedNext ==
    \/ \E p \in MalformedGraphs : DecodeLogicData(p, 1)
    \/ \E v \in Readings : UpdateDeviceValues(v)

MalformedSpec == Init /\ [][MalformedNext]_vars

(***************************************************************************)
(* The gate driven by decisions and ticks.                                 *)
(***************************************************************************)
(***************************************************************************)
(* Passes and sweeps over a graph loaded for device 2 whose source reads   *)
(* sensor 1: the source feeds one terminal node directly and a second one  *)
(* through a NOT node, so one pass hands two opposite decisions on.        *)
(***************************************************************************)
TwoTerminalGraph ==
    Payload(<<SourceNode, NotNode(3, 31, 32), TerminalNode,
              PNode(6, 28, <<PIn(61, NoData)>>, <<>>)>>,
            <<PRel(1, 41, 11), PRel(2, 31, 11), PRel(3, 61, 32)>>)

\* both terminal nodes fed by the source
AgreeingTerminalsGraph ==
    Payload(<<SourceNode, TerminalNode, PNode(6, 28, <<PIn(61, NoData)>>, <<>>)>>,
            <<PRel(1, 41, 11), PRel(2, 61, 11)>>)

KeyGraphs == {TwoTerminalGraph, AgreeingTerminalsGraph, DirectGraph}

KeyNext ==
    \/ SetCallback(TRUE)
    \/ \E p \in KeyGraphs : DecodeLogicData(p, 2)
    \/ \E b \in BOOLEAN : UpdateDeviceValues(Values(<<Sensor(1, BoolValue(b))>>))
    \/ \E t \in LiveTimes : AdvanceClock(t)
    \/ ProcessPendingChanges

KeySpec == Init /\ [][KeyNext]_vars

GateNext ==
    \/ \E cb \in BOOLEAN : SetCallback(cb)
    \/ \E duration \in Durations : SetDebounceDuration(duration)
    \/ \E t \in Times : AdvanceClock(t)
    \/ \E d \in Devices, v \in BOOLEAN : ProcessDeviceChange(d, v)
    \/ ProcessPendingChanges

GateSpec == Init /\ [][GateNext]_vars

(***************************************************************************)
(* The gate with the callback invocations of each device on record.        *)
(***************************************************************************)
SpacingInit ==
    /\ deviceNodes = EmptyMap
    /\ deviceRelationships = EmptyMap
    /\ deviceValues = EmptyMap
    /\ lastTriggerTime = EmptyMap
    /\ pendingValues = EmptyMap
    /\ callback = FALSE
    /\ debounceDuration = DefaultDebounceDuration
    /\ now = 0
    /\ fault = FALSE
    /\ quiet = {}
    /\ last = Step("init", 0, FALSE, <<>>, NoPre)
    /\ hist = <<>>
    /\ dispatched = [on |-> TRUE, at |-> EmptyMap]

\* the clock readings at which the handlers are called
SpacingTimes == {0, 5000, 10000, 20000}

SpacingNext ==
    \/ SetCallback(TRUE)
    \/ \E t \in SpacingTimes : AdvanceClock(t)
    \/ \E d \in Devices, v \in BOOLEAN : ProcessDeviceChange(d, v)
    \/ ProcessPendingChanges

SpacingSpec == SpacingInit /\ [][SpacingNext]_vars

(***************************************************************************)
(* The loader and the scheduler over every relationship list of up to      *)
(* MaxEdges admitted edges between the ports of four nodes: each payload   *)
(* repeats the relationships stored for the device and adds one candidate, *)
(* which may name a port that does not exist or ports of the wrong kind.   *)
(***************************************************************************)
TemplateNodes ==
    <<PNode(1, 30, <<>>, <<POut(11, 1)>>),
      PNode(2, 2, <<PIn(21, NoData), PIn(22, NoData)>>, <<POut(23, 0)>>),
      PNode(3, 1, <<PIn(31, NoData)>>, <<POut(32, 0)>>),
      PNode(4, 28, <<PIn(41, NoData)>>, <<>>)>>

CandidateInputIds == {21, 22, 31, 41, 11, 99}
CandidateOutputIds == {11, 23, 32, 21, 99}

AsPayloadRel(rel) == PRel(rel.id, rel.inputId, rel.outputId)

ExtendedPayload(d, i, o) ==
    LET stored == SeqMap(AsPayloadRel, StoredRelationships(d))
    IN Payload(TemplateNodes, Append(stored, PRel(Len(stored) + 1, i, o)))

SortNext ==
    \/ \E i \in CandidateInputIds, o \in CandidateOutputIds :
          /\ Len(StoredRelationships(1)) < MaxEdges
          /\ DecodeLogicData(ExtendedPayload(1, i, o), 1)
    \/ DecodeLogicData(Payload(TemplateNodes, <<>>), 1)
    \/ DecodeLogicData(Unparsable, 1)

SortSpec == Init /\ [][SortNext]_vars

(***************************************************************************)
(* The gate over an unbounded run: the clock keeps advancing (and wraps),  *)
(* the tick keeps being called, and it is called often enough to fall in   *)
(* every span in which a device's window has elapsed.                      *)
(***************************************************************************)
Expired(d) ==
    /\ d \in DOMAIN pendingValues
    /\ d \in DOMAIN lastTriggerTime
    /\ ElapsedAtLeast(now, lastTriggerTime[d], debounceDuration)

ClockStep == WrapClock \/ \E t \in LiveTimes : AdvanceClock(t)

LiveNext ==
    \/ SetCallback(TRUE)
    \/ ClockStep
    \/ \E d \in Devices, v \in BOOLEAN : ProcessDeviceChange(d, v)
    \/ \E d \in Devices : Quiesce(d)
    \/ ProcessPendingChanges

LiveSpec ==
    /\ Init
    /\ [][LiveNext]_vars
    /\ WF_vars(ClockStep)
    /\ WF_vars(ProcessPendingChanges)
    /\ \A d \in Devices : SF_vars(Expired(d) /\ ProcessPendingChanges)

(***************************************************************************)
(* C1 (as claimed).  Debounce scenario: decisions true at 0, false at      *)
(* 2000, true at 4000 with debounceDuration 10000 and a callback           *)
(* registered invoke the callback zero times; the tick at 15000 invokes it *)
(* exactly once, with true.                                                *)
(***************************************************************************)
C1_Original_NoCallDuringFlips ==
    \A d \in Devices :
        (hist # <<>> /\ Follows(hist, DebounceScenario(d))) =>
            /\ \A i \in 1..Len(hist) : i <= 3 => hist[i].calls = <<>>
            /\ Len(hist) = 4 => hist[4].calls = << <<d, TRUE>> >>

(***************************************************************************)
(* C1 (amended).  In the debounce scenario the first decision, at t=0,     *)
(* finds no lastTriggerTime and invokes the callback once with true; the   *)
(* flips at 2000 and 4000 invoke nothing; the tick at 15000 invokes the    *)
(* callback exactly once, with true.                                       *)
(***************************************************************************)
C1_DebounceScenario ==
    \A d \in Devices :
        (hist # <<>> /\ Follows(hist, DebounceScenario(d))) =>
            /\ hist[1].calls = << <<d, TRUE>> >>
            /\ Len(hist) >= 2 => hist[2].calls = <<>>
            /\ Len(hist) >= 3 => hist[3].calls = <<>>
            /\ Len(hist) = 4 => hist[4].calls = << <<d, TRUE>> >>

C1_Witness ==
    \E d \in Devices : Len(hist) = 4 /\ Follows(hist, DebounceScenario(d))

(***************************************************************************)
(* C2.  Stable scenario: after the single decision true at t=0, the tick   *)
(* at 10001 invokes the callback exactly once with (d, true) and clears    *)
(* d's pending value and trigger time; the tick at 20000 invokes nothing.  *)
(***************************************************************************)
C2_StableScenario ==
    \A d \in Devices :
        (Len(hist) >= 2 /\ Follows(hist, StableScenario(d))) =>
            /\ hist[2].calls = << <<d, TRUE>> >>
            /\ d \notin DOMAIN pendingValues
            /\ d \notin DOMAIN lastTriggerTime
            /\ Len(hist) = 3 => hist[3].calls = <<>>

C2_Witness ==
    \E d \in Devices : Len(hist) = 3 /\ Follows(hist, StableScenario(d))

(***************************************************************************)
(* C3.  Oscillation rule: a processDeviceChange(d, v) that finds a pending *)
(* value for d different from v invokes no callback and sets               *)
(* lastTriggerTime[d] to the current time and pendingValues[d] to v,       *)
(* however old the previous lastTriggerTime is.                            *)
(***************************************************************************)
FlipStep ==
    /\ last.op = "pdc"
    /\ last.dev \in DOMAIN last.pre.pv
    /\ last.pre.pv[last.dev] # last.val

C3_OscillationRule ==
    FlipStep =>
        /\ last.calls = <<>>
        /\ last.dev \in DOMAIN lastTriggerTime
        /\ lastTriggerTime[last.dev] = last.t
        /\ last.dev \in DOMAIN pendingValues
        /\ pendingValues[last.dev] = last.val

\* a flip that arrives after the window of the previous trigger has elapsed
C3_Witness ==
    /\ FlipStep
    /\ callback
    /\ last.t - last.pre.ltt[last.dev] >= debounceDuration
    /\ debounceDuration = DefaultDebounceDuration
    /\ lastTriggerTime[last.dev] = last.t

(***************************************************************************)
(* C4.  Dispatch rule: a processDeviceChange(d, v) that finds no differing *)
(* pending value invokes the (registered) callback with (d, v) and sets    *)
(* lastTriggerTime[d], pendingValues[d] to the current time and v exactly  *)
(* when no lastTriggerTime is recorded for d or the time since it is at    *)
(* least debounceDuration; otherwise it invokes nothing and leaves both    *)
(* entries of d as they were.                                              *)
(***************************************************************************)
WindowOpen ==
    \/ last.dev \notin DOMAIN last.pre.ltt
    \/ last.t - last.pre.ltt[last.dev] >= debounceDuration

C4_DispatchRule ==
    (last.op = "pdc" /\ ~FlipStep) =>
        IF WindowOpen
        THEN /\ last.calls = IF callback THEN << <<last.dev, last.val>> >> ELSE <<>>
             /\ Restrict(lastTriggerTime, last.dev) = Put(EmptyMap, last.dev, last.t)
             /\ Restrict(pendingValues, last.dev) = Put(EmptyMap, last.dev, last.val)
        ELSE /\ last.calls = <<>>
             /\ Restrict(lastTriggerTime, last.dev) = last.pre.ltt
             /\ Restrict(pendingValues, last.dev) = last.pre.pv

\* a repeated decision inside the window: nothing happens
C4_Witness ==
    /\ last.op = "pdc"
    /\ ~FlipStep
    /\ ~WindowOpen
    /\ callback
    /\ last.t > last.pre.ltt[last.dev]
    /\ last.calls = <<>>

\* a repeated decision once the window has elapsed: dispatched again
C4_WitnessDispatch ==
    /\ last.op = "pdc"
    /\ ~FlipStep
    /\ last.dev \in DOMAIN last.pre.ltt
    /\ last.t - last.pre.ltt[last.dev] >= debounceDuration
    /\ debounceDuration > 0
    /\ last.calls = << <<last.dev, last.val>> >>

(***************************************************************************)
(* What a device graph is, stated apart from the scheduler: the owner of a *)
(* port, the producer -> consumer arcs of the stored relationships, the    *)
(* nodes they touch and whether they close a cycle.                        *)
(***************************************************************************)
Loaded == DOMAIN deviceNodes

PortIds(node) ==
    {in.id : in \in Range(node.inputs)} \cup {out.id : out \in Range(node.outputs)}

UniquePortIds(nodes) ==
    /\ \A k, l \in DOMAIN nodes : k # l => PortIds(nodes[k]) \cap PortIds(nodes[l]) = {}
    /\ \A k, l \in DOMAIN nodes : k # l => nodes[k].id # nodes[l].id
    /\ \A k \in DOMAIN nodes :
          Cardinality(PortIds(nodes[k])) =
              Len(nodes[k].inputs) + Len(nodes[k].outputs)

Owner(nodes, port) ==
    (CHOOSE node \in Range(nodes) : port \in PortIds(node)).id

ArcSet(nodes, rels) ==
    {<<Owner(nodes, rel.outputId), Owner(nodes, rel.inputId)>> : rel \in Range(rels)}

Touched(nodes, rels) ==
    {arc[1] : arc \in ArcSet(nodes, rels)} \cup {arc[2] : arc \in ArcSet(nodes, rels)}

RECURSIVE Closure(_, _, _)
Closure(R, S, k) ==
    IF k = 0 THEN S
    ELSE Closure(R,
                 S \cup {<<xy[1][1], xy[2][2]>> :
                            xy \in {pair \in S \X R : pair[1][2] = pair[2][1]}},
                 k - 1)

Reaches(nodes, rels) ==
    Closure(ArcSet(nodes, rels), ArcSet(nodes, rels), Len(nodes))

Cyclic(nodes, rels) == \E arc \in Reaches(nodes, rels) : arc[1] = arc[2]

Position(order, n) == CHOOSE k \in DOMAIN order : order[k] = n

Linearizes(order, nodes, rels) ==
    /\ Range(order) = Touched(nodes, rels)
    /\ Len(order) = Cardinality(Touched(nodes, rels))
    /\ \A arc \in ArcSet(nodes, rels) :
          Position(order, arc[1]) < Position(order, arc[2])

(***************************************************************************)
(* C6.  For every acyclic device graph with graph-unique port ids,         *)
(* topologicalSort returns an order that holds each node touched by an     *)
(* admitted edge exactly once and puts, for every admitted edge, the node  *)
(* owning its output port before the node owning its input port.           *)
(***************************************************************************)
C6_ValidLinearization ==
    \A d \in Loaded :
        (UniquePortIds(deviceNodes[d])
         /\ ~Cyclic(deviceNodes[d], deviceRelationships[d])) =>
            Linearizes(topologicalSort(deviceNodes[d], deviceRelationships[d]),
                       deviceNodes[d], deviceRelationships[d])

\* a node with two producers, one of which depends on the other
C6_Witness ==
    \E d \in Loaded :
        /\ ~Cyclic(deviceNodes[d], deviceRelationships[d])
        /\ ArcSet(deviceNodes[d], deviceRelationships[d])
               = {<<1, 2>>, <<1, 3>>, <<3, 2>>}
        /\ topologicalSort(deviceNodes[d], deviceRelationships[d]) = <<1, 3, 2>>

(***************************************************************************)
(* C8 (as claimed).  Edge admission: decodeLogicData stores an edge of the *)
(* payload exactly when both its inputId and its outputId are members of   *)
(* the union of all input and output port ids of the payload's nodes.      *)
(***************************************************************************)
PayloadInputIds(payload) ==
    UNION {{in.id : in \in Range(node.i)} : node \in Range(payload.n)}

PayloadOutputIds(payload) ==
    UNION {{out.id : out \in Range(node.o)} : node \in Range(payload.n)}

InUnion(payload, rel) ==
    /\ rel.i \in PayloadInputIds(payload) \cup PayloadOutputIds(payload)
    /\ rel.o \in PayloadInputIds(payload) \cup PayloadOutputIds(payload)

LastDecoded == last.op = "decode" /\ last.ok

C8_Original_UnionAdmission ==
    LastDecoded =>
        LET keep(rel) == InUnion(last.payload, rel)
        IN SeqMap(AsPayloadRel, deviceRelationships[last.dev])
               = SelectSeq(last.payload.r, keep)

(***************************************************************************)
(* C8 (amended).  decodeLogicData stores an edge of the payload exactly    *)
(* when its inputId is the id of an input port and its outputId the id of  *)
(* an output port of the payload's nodes; every other edge is discarded.   *)
(***************************************************************************)
InputToOutput(payload, rel) ==
    /\ rel.i \in PayloadInputIds(payload)
    /\ rel.o \in PayloadOutputIds(payload)

C8_EdgeAdmission ==
    LastDecoded =>
        LET keep(rel) == InputToOutput(last.payload, rel)
        IN SeqMap(AsPayloadRel, deviceRelationships[last.dev])
               = SelectSeq(last.payload.r, keep)

\* a payload of which one edge was kept and one, naming a missing port, dropped
C8_Witness ==
    /\ LastDecoded
    /\ Len(deviceRelationships[last.dev]) >= 1
    /\ Len(last.payload.r) = Len(deviceRelationships[last.dev]) + 1
    /\ \E rel \in Range(last.payload.r) : rel.i = 99 \/ rel.o = 99

(***************************************************************************)
(* C5.  Eventual dispatch: once a device has a pending value, a callback   *)
(* is registered and no further decision arrives for the device, then      *)
(* (the clock advancing and the tick being called) the callback is         *)
(* eventually invoked with that pending value and the device's pending     *)
(* value and trigger time are erased.  A run that ends in a fault is not   *)
(* held against the claim.                                                 *)
(***************************************************************************)
Called(d, v) == \E i \in 1..Len(last.calls) : last.calls[i] = <<d, v>>

Dispatched(d, v) ==
    /\ last.op = "tick"
    /\ Called(d, v)
    /\ d \notin DOMAIN pendingValues
    /\ d \notin DOMAIN lastTriggerTime

C5_EventualDispatch ==
    \A d \in Devices, v \in BOOLEAN :
        (d \in quiet /\ callback /\ d \in DOMAIN pendingValues /\ pendingValues[d] = v)
            ~> (Dispatched(d, v) \/ fault)

\* the same for the device the sweep visits first
C5_FirstDeviceDispatched ==
    \A v \in BOOLEAN :
        (1 \in quiet /\ callback /\ 1 \in DOMAIN pendingValues /\ pendingValues[1] = v)
            ~> (Dispatched(1, v) \/ fault)

LoadedCyclic(d) == d \in Loaded /\ Cyclic(deviceNodes[d], StoredRelationships(d))

\* the decisions a pass handed to the gate for device d
DecisionsFor(pdc, d) ==
    LET mine(call) == call[1] = d
    IN SelectSeq(pdc, mine)

(***************************************************************************)
(* C7.  Cyclic graph skip: in an updateDeviceValues pass over a parsable   *)
(* payload, a loaded device whose node adjacency holds a cycle (a          *)
(* self-loop included) gets the empty order from topologicalSort, none of  *)
(* its port values changes and processDeviceChange is not called for it,   *)
(* while evaluateNodeInput still runs over the whole schedule of every     *)
(* other loaded device.                                                    *)
(***************************************************************************)
C7_CyclicGraphSkip ==
    [][\A v \in ValuePayloads :
          (UpdateDeviceValues(v) /\ v.parsed /\ ~fault') =>
              \A d \in Loaded :
                  LoadedCyclic(d) =>
                      /\ last'.sched[d] = <<>>
                      /\ last'.ran[d] = <<>>
                      /\ deviceNodes'[d] = deviceNodes[d]
                      /\ DecisionsFor(last'.pdc, d) = <<>>
                      /\ \A e \in Loaded \ {d} :
                            /\ e \in DOMAIN last'.ran
                            /\ ~LoadedCyclic(e) =>
                                  /\ Linearizes(last'.ran[e], deviceNodes[e],
                                                StoredRelationships(e))
                                  /\ DecisionsFor(last'.pdc, e) # <<>>]_vars

\* a pass skipped device 1, which holds the self-loop graph, and went on to
\* evaluate device 2 and hand its decision to the gate
C7_Witness ==
    /\ last.op = "update"
    /\ last.ok
    /\ Loaded = {1, 2}
    /\ deviceNodes[1] = DecodeNodes(SelfLoopGraph)
    /\ LoadedCyclic(1)
    /\ last.sched[1] = <<>>
    /\ ~LoadedCyclic(2)
    /\ last.ran[2] # <<>>
    /\ Written(deviceNodes[2])
    /\ DecisionsFor(last.pdc, 2) # <<>>

(***************************************************************************)
(* C9.  Full replace: after a successful decodeLogicData(payload, d) the   *)
(* nodes and edges stored for d are exactly those of the payload, with     *)
(* every output value empty and every input value the payload's own, and   *)
(* what is stored for every other device is unchanged.                     *)
(***************************************************************************)
C9_FullReplace ==
    [][\A p \in GraphPayloads, d \in Devices :
          (DecodeLogicData(p, d) /\ p.parsed) =>
              /\ last'.ok
              /\ DOMAIN deviceNodes' = DOMAIN deviceNodes \cup {d}
              /\ DOMAIN deviceRelationships' = DOMAIN deviceRelationships \cup {d}
              /\ deviceNodes'[d] = DecodeNodes(p)
              /\ ~Written(deviceNodes'[d])
              /\ deviceRelationships'[d] = DecodeRelationships(p)
              /\ \A e \in Loaded \ {d} :
                    /\ deviceNodes'[e] = deviceNodes[e]
                    /\ deviceRelationships'[e] = deviceRelationships[e]]_vars

\* a graph was loaded over one that held written port values, beside another
\* device whose graph holds written port values
C9_Witness ==
    /\ last.op = "decode"
    /\ last.ok
    /\ last.val
    /\ last.payload.n # <<>>
    /\ deviceNodes[last.dev] = DecodeNodes(last.payload)
    /\ \E e \in Loaded \ {last.dev} : Written(deviceNodes[e])

(***************************************************************************)
(* C10.  Decode failure leaves state unchanged: decodeLogicData on an      *)
(* unparsable payload returns false and leaves the nodes and edges of      *)
(* every device as they were; updateDeviceValues on an unparsable payload  *)
(* leaves deviceValues, every port value, pendingValues and                *)
(* lastTriggerTime as they were and invokes no callback.                   *)
(***************************************************************************)
C10_DecodeFailure ==
    [][/\ \A d \in Devices :
             DecodeLogicData(Unparsable, d) =>
                 /\ ~last'.ok
                 /\ deviceNodes' = deviceNodes
                 /\ deviceRelationships' = deviceRelationships
       /\ UpdateDeviceValues(UnparsableValues) =>
             /\ deviceValues' = deviceValues
             /\ deviceNodes' = deviceNodes
             /\ pendingValues' = pendingValues
             /\ lastTriggerTime' = lastTriggerTime
             /\ last'.calls = <<>>]_vars

\* an unparsable value payload arrived right after an unparsable graph payload,
\* with graphs loaded, port values written, a value stored, a decision pending
\* and a callback registered
C10_Witness ==
    /\ last.op = "update"
    /\ ~last.ok
    /\ last.afterFailedDecode
    /\ callback
    /\ \E d \in Loaded : Written(deviceNodes[d])
    /\ deviceValues # EmptyMap
    /\ pendingValues # EmptyMap
    /\ lastTriggerTime # EmptyMap

PassDone == last.op = "update" /\ last.ok /\ ~fault

(***************************************************************************)
(* C11.  Memoization: within one updateDeviceValues pass over a device     *)
(* graph the function of each node runs at most once, also when the node   *)
(* is reachable along several paths or is a dependency of several          *)
(* scheduled nodes.                                                        *)
(***************************************************************************)
C11_ComputedAtMostOnce ==
    PassDone =>
        \A d \in DOMAIN last.evals :
            \A i, j \in DOMAIN last.evals[d] :
                last.evals[d][i] = last.evals[d][j] => i = j

\* the nodes of device 1 whose function ran in the pass just made
RanNodes ==
    IF PassDone /\ 1 \in DOMAIN last.evals
    THEN {k \in DOMAIN deviceNodes[1] : deviceNodes[1][k].id \in Range(last.evals[1])}
    ELSE {}

(***************************************************************************)
(* C12.  Uniform coercion: the boolean a logic-gate node derives from an   *)
(* input string is the one convertToBool gives for that string; seen at a  *)
(* NOT node, whose outputs then hold the negation of convertToBool of its  *)
(* first input.                                                            *)
(***************************************************************************)
C12_UniformCoercion ==
    \A k \in RanNodes :
        LET node == deviceNodes[1][k]
        IN (node.availableId = 1 /\ node.inputs # <<>>) =>
               \A j \in DOMAIN node.outputs :
                   node.outputs[j].data = BoolString(~convertToBool(node.inputs[1].data))

GateTable(availableId, a, b) ==
    CASE availableId = 1 -> ~a
      [] availableId = 2 -> a /\ b
      [] availableId = 3 -> a \/ b
      [] availableId = 4 -> (a /\ ~b) \/ (~a /\ b)
      [] availableId = 5 -> ~a /\ ~b
      [] availableId = 6 -> ~a \/ ~b
      [] availableId = 7 -> (a /\ b) \/ (~a /\ ~b)

WordOf(b) == IF b THEN STrue ELSE SFalse

(***************************************************************************)
(* C14.  Boolean gate table: a node with availableId 1..7 whose inputs are *)
(* the strings of booleans a and b writes to every one of its outputs the  *)
(* string of NOT a, a AND b, a OR b, a XOR b, NOT(a OR b), NOT(a AND b),   *)
(* NOT(a XOR b) respectively.                                              *)
(***************************************************************************)
C14_GateTable ==
    \A k \in RanNodes :
        LET node == deviceNodes[1][k]
        IN (node.availableId \in 1..7 /\ Len(node.inputs) = 2
            /\ node.inputs[1].data \in BoolWords /\ node.inputs[2].data \in BoolWords) =>
               \A j \in DOMAIN node.outputs :
                   node.outputs[j].data =
                       WordOf(GateTable(node.availableId,
                                        node.inputs[1].data = STrue,
                                        node.inputs[2].data = STrue))

\* a pass evaluated NAND(true, false), and both outputs of the node hold "true"
C14_Witness ==
    /\ PassDone
    /\ \E k \in RanNodes :
          /\ deviceNodes[1][k].availableId = 6
          /\ deviceNodes[1][k].inputs[1].data = STrue
          /\ deviceNodes[1][k].inputs[2].data = SFalse
          /\ Len(deviceNodes[1][k].outputs) = 2
          /\ \A j \in {1, 2} : deviceNodes[1][k].outputs[j].data = STrue

\* the number a string stands for at a math node, in millionths
NumberOf(str) == IF stod(str).ok THEN stod(str).v ELSE 0

(***************************************************************************)
(* C15.  Arithmetic safety: a DIVIDE node whose second input stands for    *)
(* zero (an unparsable or "null" input included) writes 0 to its outputs   *)
(* whatever its first input is, and the pass goes on to hand the terminal  *)
(* node's decision to the gate; with a second input that is not zero it    *)
(* writes input0 / input1.                                                 *)
(***************************************************************************)
C15_DivideSafety ==
    /\ (last.op = "update" /\ last.ok /\ 1 \in Loaded
        /\ \E k \in DOMAIN deviceNodes[1] : deviceNodes[1][k].availableId = 11)
           => (~fault /\ last.pdc # <<>>)
    /\ \A k \in RanNodes :
          LET node == deviceNodes[1][k]
              x == NumberOf(node.inputs[1].data)
              y == NumberOf(node.inputs[2].data)
          IN (node.availableId = 11 /\ Len(node.inputs) = 2) =>
                 \A j \in DOMAIN node.outputs :
                     IF y = 0
                     THEN node.outputs[j].data = to_string(Finite(0))
                     ELSE /\ stod(node.outputs[j].data).ok
                          /\ stod(node.outputs[j].data).fin
                          /\ MulMicro(stod(node.outputs[j].data).v, y) = x

\* a pass evaluated DIVIDE("5", "0"): the outputs hold "0.000000" and the
\* terminal's decision, false, was handed to the gate
C15_Witness ==
    /\ PassDone
    /\ last.pdc = << <<1, FALSE>> >>
    /\ \E k \in RanNodes :
          /\ deviceNodes[1][k].availableId = 11
          /\ deviceNodes[1][k].inputs[1].data = <<"5">>
          /\ deviceNodes[1][k].inputs[2].data = <<"0">>
          /\ deviceNodes[1][k].outputs[1].data = <<"0", ".", "0", "0", "0", "0", "0", "0">>

\* a pass evaluated DIVIDE("5", "2") and wrote "2.500000"
C15_WitnessQuotient ==
    /\ PassDone
    /\ \E k \in RanNodes :
          /\ deviceNodes[1][k].availableId = 11
          /\ deviceNodes[1][k].inputs[1].data = <<"5">>
          /\ deviceNodes[1][k].inputs[2].data = <<"2">>
          /\ deviceNodes[1][k].outputs[1].data = <<"2", ".", "5", "0", "0", "0", "0", "0">>

\* ids and kinds of the nodes, without their port values
Shape(nodes) == [k \in DOMAIN nodes |-> <<nodes[k].id, nodes[k].availableId>>]

HoldsGraph(payload) ==
    /\ 1 \in Loaded
    /\ Shape(deviceNodes[1]) = Shape(DecodeNodes(payload))
    /\ deviceRelationships[1] = DecodeRelationships(payload)

HoldsGraphOf(d, payload) ==
    /\ d \in Loaded
    /\ Shape(deviceNodes[d]) = Shape(DecodeNodes(payload))
    /\ deviceRelationships[d] = DecodeRelationships(payload)

\* what sensor 1 currently says, canonically
Sensor1 == IF 1 \in DOMAIN deviceValues THEN convertToBool(deviceValues[1]) ELSE FALSE

OutputWithId(node, id) ==
    node.outputs[CHOOSE j \in DOMAIN node.outputs : node.outputs[j].id = id]

\* decision i of the pass just made agrees with what feeds the terminal's first input
DecisionIsCurrent(i) ==
    LET nodes == deviceNodes[1]
        k == FirstIndex(nodes, last.from[i])
        handed == last.pdc[i][2]
        feeders == Producers(nodes, StoredRelationships(1), nodes[k].inputs[1].id)
    IN nodes[k].inputs # <<>> =>
          IF feeders = <<>>
          THEN handed = convertToBool(last.found[1][k].inputs[1].data)
          ELSE Len(feeders) = 1 =>
                  LET feeder == nodes[FirstIndex(nodes, feeders[1][1])]
                      out == OutputWithId(feeder, feeders[1][2])
                  IN /\ feeder.id \in Range(last.evals[1])
                     /\ handed = convertToBool(out.data)
                     /\ (feeder.availableId = 30 /\ out.deviceId \in DOMAIN deviceValues)
                            => out.data = deviceValues[out.deviceId]

(***************************************************************************)
(* C13.  Terminal decision reflects the current pass: the boolean handed   *)
(* to processDeviceChange for a terminal node is convertToBool of the      *)
(* value the node feeding the terminal's first input computed in this      *)
(* pass, from the device value table as it is now (of the first input's    *)
(* stored value when no edge targets it): through a NOT node, or through   *)
(* two NOT nodes and an AND node, it is the negation of sensor 1.          *)
(***************************************************************************)
C13_TerminalDecisionCurrent ==
    PassDone =>
        /\ \A i \in DOMAIN last.pdc : DecisionIsCurrent(i)
        /\ (HoldsGraph(InvertedGraph) \/ HoldsGraph(DiamondGraph))
               => last.pdc = << <<1, ~Sensor1>> >>
        /\ HoldsGraph(IsolatedGraph) => last.pdc = << <<1, Sensor1>> >>
        /\ HoldsGraph(SecondInputGraph) => last.pdc = << <<1, TRUE>> >>

\* the pass found "false" in the terminal's input, left by the pass before it,
\* and handed true: sensor 1 now says false and the NOT node inverts it
C13_Witness ==
    /\ PassDone
    /\ HoldsGraph(InvertedGraph)
    /\ last.found[1][3].inputs[1].data = SFalse
    /\ deviceValues[1] = SFalse
    /\ last.pdc = << <<1, TRUE>> >>

(***************************************************************************)
(* C16.  No abort on a malformed node: no evaluation pass faults, whatever *)
(* the kinds and port counts of the loaded nodes are (a binary node with   *)
(* fewer than two inputs, a unary node with none, a node with no outputs). *)
(***************************************************************************)
C16_NoAbortOnMalformedNode == last.op = "update" => ~fault

\* the node with this id in the vector of device 1
NodeOf(nodes, id) == nodes[1][FirstIndex(nodes[1], id)]

(***************************************************************************)
(* C17.  Unrecognized node kind is a no-op for its dependents: a pass over *)
(* source -> node of kind 99 -> terminal changes no output of the node of  *)
(* kind 99, and leaves the terminal's input holding the value it held      *)
(* before the pass, which is the value the decision is made with.          *)
(***************************************************************************)
C17_UnknownKindInert ==
    (PassDone /\ HoldsGraph(UnknownKindGraph)) =>
        /\ NodeOf(deviceNodes, 6).outputs = NodeOf(last.found, 6).outputs
        /\ NodeOf(deviceNodes, 4).inputs = NodeOf(last.found, 4).inputs
        /\ last.pdc = << <<1, convertToBool(NodeOf(last.found, 4).inputs[1].data)>> >>

\* the values held by the inputs with this id
InputData(nodes, inputId) ==
    UNION {{in.data : in \in {in \in Range(node.inputs) : in.id = inputId}} :
           node \in Range(nodes)}

(***************************************************************************)
(* C18.  Device source read: after a pass, each output of a scheduled      *)
(* device-source node whose deviceId has an entry in the device value      *)
(* table holds that entry, and so does every input that an edge connects   *)
(* to that output.                                                         *)
(***************************************************************************)
C18_DeviceSourceRead ==
    (PassDone /\ 1 \in Loaded) =>
        \A node \in Range(deviceNodes[1]) :
            (node.availableId = 30 /\ node.id \in Range(last.sched[1])) =>
                \A out \in Range(node.outputs) :
                    out.deviceId \in DOMAIN deviceValues =>
                        /\ out.data = deviceValues[out.deviceId]
                        /\ \A rel \in Range(StoredRelationships(1)) :
                               rel.outputId = out.id =>
                                   InputData(deviceNodes[1], rel.inputId)
                                       \subseteq {deviceValues[out.deviceId]}

\* no admitted edge ends at a port of the node
Isolated(node, rels) ==
    \A rel \in Range(rels) :
        /\ rel.inputId \notin {in.id : in \in Range(node.inputs)}
        /\ rel.outputId \notin {out.id : out \in Range(node.outputs)}

(***************************************************************************)
(* C19.  Isolated nodes are inert: a node none of whose ports is an        *)
(* endpoint of an admitted edge is not in the order topologicalSort        *)
(* returns, is not evaluated in a pass, keeps every port value through the *)
(* pass, and is not the origin of a processDeviceChange call.              *)
(***************************************************************************)
C19_IsolatedNodesInert ==
    1 \in Loaded =>
        \A k \in DOMAIN deviceNodes[1] :
            Isolated(deviceNodes[1][k], StoredRelationships(1)) =>
                /\ deviceNodes[1][k].id
                       \notin Range(topologicalSort(deviceNodes[1], deviceRelationships[1]))
                /\ (last.op = "update" /\ last.ok) =>
                       /\ deviceNodes[1][k].id \notin Range(last.sched[1])
                       /\ deviceNodes[1][k].id \notin Range(last.ran[1])
                       /\ deviceNodes[1][k].id \notin Range(last.evals[1])
                       /\ deviceNodes[1][k].id \notin Range(last.from)
                       /\ deviceNodes[1][k] = last.found[1][k]

\* a pass decided false for the connected terminal while an isolated terminal
\* holds "true" in its input and an isolated NOT node holds nothing in its output
C19_Witness ==
    /\ PassDone
    /\ HoldsGraph(IsolatedGraph)
    /\ last.pdc = << <<1, FALSE>> >>
    /\ last.calls = << <<1, FALSE>> >>
    /\ NodeOf(deviceNodes, 8).availableId = 28
    /\ NodeOf(deviceNodes, 8).inputs[1].data = STrue
    /\ Isolated(NodeOf(deviceNodes, 8), StoredRelationships(1))
    /\ Isolated(NodeOf(deviceNodes, 3), StoredRelationships(1))
    /\ NodeOf(deviceNodes, 3).outputs[1].data = SEmpty

\* the window of device d has elapsed at the time of the sweep
WindowElapsed(d) ==
    ElapsedAtLeast(now, IF d \in DOMAIN lastTriggerTime THEN lastTriggerTime[d] ELSE 0,
                   debounceDuration)

(***************************************************************************)
(* C20.  Sweep covers every device: one processPendingChanges call invokes *)
(* the callback with the pending value and clears the pending and trigger  *)
(* entries of every device whose window has elapsed, and leaves the        *)
(* entries of every other pending device as they were, without a call.     *)
(***************************************************************************)
C20_SweepCoversEveryDevice ==
    [][ProcessPendingChanges =>
          \A d \in DOMAIN pendingValues :
              IF WindowElapsed(d)
              THEN /\ callback => <<d, pendingValues[d]>> \in Range(last'.calls)
                   /\ d \notin DOMAIN pendingValues'
                   /\ d \notin DOMAIN lastTriggerTime'
              ELSE /\ d \in DOMAIN pendingValues'
                   /\ pendingValues'[d] = pendingValues[d]
                   /\ d \in DOMAIN lastTriggerTime /\ d \in DOMAIN lastTriggerTime'
                   /\ lastTriggerTime'[d] = lastTriggerTime[d]
                   /\ \A call \in Range(last'.calls) : call[1] # d]_vars

(***************************************************************************)
(* C21 as stated.  Minimum spacing of dispatches: with a monotonic clock,  *)
(* a callback invocation for a device comes at least debounceDuration      *)
(* after the invocation before it for the same device.                     *)
(***************************************************************************)
C21_Original_MinimumSpacing ==
    \A d \in DOMAIN dispatched.at :
        ~dispatched.at[d].first => dispatched.at[d].gap >= dispatched.at[d].dur

(***************************************************************************)
(* C21.  Minimum spacing of dispatches after a decision: with a monotonic  *)
(* clock, a callback invocation for a device comes at least                *)
(* debounceDuration after the invocation before it for the same device     *)
(* when that earlier invocation was made by processDeviceChange.  After an *)
(* invocation made by the sweep, which erases the device's entries, the    *)
(* next decision is dispatched at once.                                    *)
(***************************************************************************)
C21_SpacingAfterDecision ==
    \A d \in DOMAIN dispatched.at :
        (~dispatched.at[d].first /\ dispatched.at[d].after = "pdc")
            => dispatched.at[d].gap >= dispatched.at[d].dur

\* a decision dispatched a full window after the decision dispatched before it,
\* and a sweep dispatch a full window after a decision
C21_Witness ==
    /\ 1 \in DOMAIN dispatched.at /\ 2 \in DOMAIN dispatched.at
    /\ ~dispatched.at[1].first /\ ~dispatched.at[2].first
    /\ dispatched.at[1].after = "pdc" /\ dispatched.at[1].by = "pdc"
    /\ dispatched.at[1].dur = DefaultDebounceDuration
    /\ dispatched.at[1].gap >= DefaultDebounceDuration
    /\ dispatched.at[2].after = "pdc" /\ dispatched.at[2].by = "tick"
    /\ dispatched.at[2].dur = DefaultDebounceDuration
    /\ dispatched.at[2].gap >= DefaultDebounceDuration

(***************************************************************************)
(* C22.  Pending state is paired: in every state reached through           *)
(* processDeviceChange and processPendingChanges calls, a device id has an *)
(* entry in pendingValues if and only if it has one in lastTriggerTime.    *)
(***************************************************************************)
C22_PendingStatePaired == DOMAIN pendingValues = DOMAIN lastTriggerTime

\* a sweep has just dispatched and erased device 2 and left device 1, whose window
\* has not elapsed, with both of its entries
C22_Witness ==
    /\ last.op = "tick"
    /\ ~fault
    /\ \E v \in BOOLEAN : <<2, v>> \in Range(last.calls)
    /\ DOMAIN pendingValues = {1}
    /\ DOMAIN lastTriggerTime = {1}

RECURSIVE ApplyDecisions(_, _, _)
\* the gate after the decisions pdc[i..] have been handed to it one after another
ApplyDecisions(g, pdc, i) ==
    IF i > Len(pdc) THEN g
    ELSE ApplyDecisions(processDeviceChange(g, pdc[i][1], pdc[i][2]), pdc, i + 1)

\* the terminal nodes among nodes in the order the pass scheduled them
ScheduledTerminals(nodes, sched) ==
    LET terminal(id) == nodes[FirstIndex(nodes, id)].availableId = 28
    IN SelectSeq(sched, terminal)

\* the step is an updateDeviceValues pass that parsed its argument
PassStep == last'.op = "update" /\ last'.ok /\ now' = now

(***************************************************************************)
(* C23.  Gate key is the graph's device id: every callback invocation, by  *)
(* a pass or by the sweep, carries an id under which a graph is loaded,    *)
(* and so does every entry of pendingValues and lastTriggerTime (the graph *)
(* is loaded for device 2 and its source declares dId 1).  A pass hands    *)
(* one decision per scheduled terminal node to the gate, in schedule       *)
(* order, all under the graph's device id, and the entry of that id after  *)
(* the pass is what processDeviceChange makes of those decisions applied   *)
(* one after another to the entry found.                                   *)
(***************************************************************************)
C23_GateKeyIsGraphDevice ==
    [][/\ \A call \in Range(last'.calls) : call[1] \in DOMAIN deviceNodes'
       /\ DOMAIN pendingValues' \subseteq DOMAIN deviceNodes'
       /\ DOMAIN lastTriggerTime' \subseteq DOMAIN deviceNodes'
       /\ (PassStep /\ 2 \in DOMAIN deviceNodes) =>
              /\ last'.from = ScheduledTerminals(deviceNodes'[2], last'.sched[2])
              /\ \A i \in DOMAIN last'.pdc : last'.pdc[i][1] = 2
              /\ Len(last'.pdc) = Len(last'.from)
              /\ lastTriggerTime'
                     = ApplyDecisions(Gate(lastTriggerTime, pendingValues), last'.pdc, 1).ltt
              /\ pendingValues'
                     = ApplyDecisions(Gate(lastTriggerTime, pendingValues), last'.pdc, 1).pv
              /\ last'.calls
                     = ApplyDecisions(Gate(lastTriggerTime, pendingValues), last'.pdc, 1).calls
      ]_vars

\* a pass over the graph with two terminal nodes handed true and then false to the
\* gate under device 2: the first was dispatched, the second is pending
C23_Witness ==
    /\ PassDone
    /\ HoldsGraphOf(2, TwoTerminalGraph)
    /\ last.from = <<4, 6>>
    /\ last.pdc = << <<2, TRUE>>, <<2, FALSE>> >>
    /\ last.calls = << <<2, TRUE>> >>
    /\ deviceValues[1] = STrue
    /\ DOMAIN pendingValues = {2}
    /\ pendingValues[2] = FALSE

====
